---------------------------- MODULE Spec2Model ----------------------------
(***************************************************************************)
(* A model of the enderpy recursive-descent parser (src/parser/parser.rs). *)
(*                                                                         *)
(* The parser is a cursor over a token stream plus a chain of mutually     *)
(* recursive parse procedures.  The cursor is modelled by a record         *)
(*     [cur, pte, nel, ns]                                                 *)
(* (index of cur_token, prev_token_end, nested_expression_list,            *)
(* nested_subscript); every parse procedure is an operator from a cursor   *)
(* to a result [k, p, v | e]:                                              *)
(*     k = "ok"    Ok(v)  was returned, the cursor is p                    *)
(*     k = "err"   Err(e) was returned, the cursor is p                    *)
(*     k = "panic" the procedure did not return (panic!, unimplemented!,   *)
(*                 expect() on an Err, unbounded recursion)                *)
(* The module driver Parser::parse is the state machine: one step per      *)
(* iteration of its loop.                                                  *)
(***************************************************************************)
EXTENDS Integers, Sequences, FiniteSets, TLC

VARIABLES
    toks,   \* what the lexer delivers: the token stream, Eof last
    cur,    \* index in toks of Parser.cur_token
    pte,    \* Parser.prev_token_end
    nel,    \* Parser.nested_expression_list
    ns,     \* Parser.nested_subscript
    body,   \* the body vector of Parser::parse
    pc,     \* "parsing" | "done" | "aborted"
    last    \* the last operation applied and what it returned

vars == <<toks, cur, pte, nel, ns, body, pc, last>>

(***************************************************************************)
(* Bounds of the model.                                                    *)
(***************************************************************************)
\* longest generated token stream (Eof not counted)
MaxLen == 5
\* most brackets a generated token stream opens
MaxNest == 1

(***************************************************************************)
(* Tokens.  A token is [kind, value, start, end]; the i-th entry of a      *)
(* stream covers the byte range [2(i-1), 2(i-1)+1): one character, then    *)
(* one blank.  "LexError" marks a place where Lexer::next_token returns    *)
(* Err instead of a token.                                                 *)
(***************************************************************************)
Names == <<"a", "b", "c", "d", "e", "f", "g", "h", "i", "j", "k", "l",
           "m", "n", "o", "p", "q", "r", "s", "t", "u", "v", "w", "x",
           "y", "z", "aa", "ab", "ac", "ad", "ae", "af", "ag", "ah", "ai",
           "aj", "ak", "al", "am", "an">>

LexError == "LexError"

MkToken(kind, i) ==
    [kind |-> kind, value |-> Names[i], start |-> 2 * (i - 1), end |-> 2 * (i - 1) + 1]

MkEof(i) ==
    [kind |-> "Eof", value |-> "", start |-> 2 * (i - 1), end |-> 2 * (i - 1)]

\* the stream the lexer delivers for the sequence of kinds ks
Lex(ks) ==
    [i \in 1..(Len(ks) + 1) |->
        IF i <= Len(ks) THEN MkToken(ks[i], i) ELSE MkEof(i)]

(***************************************************************************)
(* The cursor.                                                             *)
(***************************************************************************)
Cursor == [cur |-> cur, pte |-> pte, nel |-> nel, ns |-> ns]

Ok(p, v) == [k |-> "ok", stop |-> FALSE, p |-> p, v |-> v]
Err(p, e) == [k |-> "err", stop |-> TRUE, p |-> p, e |-> e]
Panic(p, msg) == [k |-> "panic", stop |-> TRUE, p |-> p, e |-> msg]

Node(start, end) == [start |-> start, end |-> end]

\* diagnostics.rs
ExpectToken(wanted, found, range) ==
    [diag |-> "ExpectToken", a |-> wanted, b |-> found, range |-> range]
UnexpectedToken(found, range) ==
    [diag |-> "UnexpectedToken", a |-> found, b |-> "", range |-> range]
InvalidSyntax(msg, range) ==
    [diag |-> "InvalidSyntax", a |-> msg, b |-> "", range |-> range]
LexDiag(range) ==
    [diag |-> "LexError", a |-> "", b |-> "", range |-> range]

cur_token(p) == toks[p.cur]

cur_kind(p) == toks[p.cur].kind

start_node(p) == Node(cur_token(p).start, 0)

finish_node(p, node) == Node(node.start, p.pte)

\* Lexer: the entry that follows entry i; past the end the lexer keeps
\* delivering Eof
next_index(i) == IF i >= Len(toks) THEN Len(toks) ELSE i + 1

peek_kind(p) == toks[next_index(p.cur)].kind

at(p, kind) == cur_kind(p) = kind

RECURSIVE advance_from(_, _)
advance_from(p, lex) ==
    LET i == next_index(lex)
    IN  IF toks[i].kind = LexError
        THEN advance_from(p, i)
        ELSE [p EXCEPT !.pte = toks[p.cur].end, !.cur = i]

\* an advance that takes prev_token_end from the entry the lexer delivered
\* last before the new current token, a lexer error included
advance_tracks_lexer(p) ==
    LET q == advance_from(p, p.cur)
    IN  [q EXCEPT !.pte = toks[IF q.cur > p.cur THEN q.cur - 1 ELSE p.cur].end]

advance(p) == advance_from(p, p.cur)

bump(p, kind) == IF at(p, kind) THEN advance(p) ELSE p

bump_any(p) == advance(p)

\* eat returns the new cursor; the boolean it returns is at(p, kind)
eat(p, kind) == IF at(p, kind) THEN advance(p) ELSE p

expect_always_advances(p, kind) ==
    IF ~at(p, kind)
    THEN Err(advance(p), ExpectToken(kind, cur_kind(p), finish_node(p, start_node(p))))
    ELSE Ok(advance(p), "unit")

expect(p, kind) ==
    IF ~at(p, kind)
    THEN Err(p, ExpectToken(kind, cur_kind(p), finish_node(p, start_node(p))))
    ELSE Ok(advance(p), "unit")


(***************************************************************************)
(* Token classes (expression.rs, operator.rs, string.rs).                  *)
(***************************************************************************)
is_atom(kind) ==
    kind \in {"Identifier", "StringLiteral", "RawString", "RawBytes", "Bytes",
              "FStringStart", "Integer", "PointFloat", "ImaginaryInteger",
              "True", "False", "None",
              "LeftParen", "LeftBracket", "LeftBrace", "Yield"}

is_comparison_operator(kind) ==
    kind \in {"Less", "Greater", "LessEq", "GreaterEq", "Eq", "NotEq",
              "In", "Is", "Not"}

is_unary_op(kind) == kind \in {"Not", "BitNot", "Minus", "Plus"}

map_unary_operator(kind) ==
    CASE kind = "Not" -> "Not"
      [] kind = "BitNot" -> "Invert"
      [] kind = "Minus" -> "USub"
      [] kind = "Plus" -> "UAdd"

is_bin_arithmetic_op(kind) ==
    kind \in {"Plus", "Minus", "Mul", "Div", "IntDiv", "Mod", "MatrixMul"}

is_string(kind) ==
    kind \in {"StringLiteral", "RawString", "RawBytes", "Bytes", "FStringStart"}

is_iterable(expr) == expr.type \in {"List", "Tuple", "Set", "Name"}

(***************************************************************************)
(* The AST (ast.rs): a node is a record whose type field names the         *)
(* variant and whose other fields are the fields of the Rust struct.       *)
(* Option::None is NoneOpt.                                                *)
(***************************************************************************)
NoneOpt == [type |-> "NoneOpt"]

Name(node, id) == [type |-> "Name", node |-> node, id |-> id]

Tuple(node, elements) == [type |-> "Tuple", node |-> node, elements |-> elements]

BinOp(node, op, left, right) ==
    [type |-> "BinOp", node |-> node, op |-> op, left |-> left, right |-> right]

ExpressionStatement(expr) == [type |-> "ExpressionStatement", value |-> expr]


(***************************************************************************)
(* Calls.  The parse procedures are mutually recursive.  f(p, x) and       *)
(* self("f", p, <<x>>) are the same call, self.f(x) made with the cursor   *)
(* p; self is defined after the procedures.  Where a procedure binds the   *)
(* result of its first call to a variable x, the statements that follow    *)
(* the binding are the operator f_x, which takes the result as x.          *)
(***************************************************************************)
RECURSIVE self(_, _, _)

RECURSIVE parse_and_expr(_)
RECURSIVE parse_and_test(_)
RECURSIVE parse_atom(_)
RECURSIVE parse_atom_concat(_, _, _)
RECURSIVE parse_atribute_ref_loop(_, _, _)
RECURSIVE parse_binary_arithmetic_operation(_)
RECURSIVE parse_call_loop(_, _, _, _)
RECURSIVE parse_comp_for_ifs(_, _)
RECURSIVE parse_comp_for_loop(_, _, _)
RECURSIVE parse_comparison(_)
RECURSIVE parse_dict_loop(_, _, _)
RECURSIVE parse_dict_or_set(_)
RECURSIVE parse_expression_2(_)
RECURSIVE parse_expression_list_loop(_, _)
RECURSIVE parse_expression_loop(_, _)
RECURSIVE parse_fstring_loop(_, _)
RECURSIVE parse_list(_)
RECURSIVE parse_not_test(_)
RECURSIVE parse_or_expr(_)
RECURSIVE parse_or_test(_)
RECURSIVE parse_parameters_loop(_, _, _, _)
RECURSIVE parse_paren_form_or_generator(_)
RECURSIVE parse_power_expression(_)
RECURSIVE parse_primary(_)
RECURSIVE parse_shift_expr(_)
RECURSIVE parse_slice_list_loop(_, _)
RECURSIVE parse_starred_expression_loop(_, _, _)
RECURSIVE parse_starred_list_loop(_, _, _)
RECURSIVE parse_subscript_loop(_, _, _)
RECURSIVE parse_target_elements(_, _)
RECURSIVE parse_target_list_loop(_, _)
RECURSIVE parse_target_loop(_, _)
RECURSIVE parse_unary_arithmetric_operation(_)
RECURSIVE parse_xor_expr(_)
RECURSIVE parse_yield_expression(_)
RECURSIVE consume_whitespace_and_newline(_)

(***************************************************************************)
(* Statements and the top of the expression grammar.                       *)
(***************************************************************************)
parse_expression_loop(p, exprs) ==
    IF at(p, "Comma")
    THEN LET p1 == advance(p)
         IN  IF at(p1, "Eof")
             THEN Ok(p1, exprs)
             ELSE LET r == self("parse_expression_2", p1, <<>>)
                  IN  IF r.stop THEN r
                      ELSE parse_expression_loop(r.p, Append(exprs, r.v))
    ELSE Ok(p, exprs)

parse_expression_expr(node, expr) ==
    IF expr.stop THEN expr
    ELSE IF at(expr.p, "Comma")
    THEN LET rl == self("parse_expression_loop", expr.p, <<<<expr.v>>>>)
         IN  IF rl.stop THEN rl
             ELSE Ok(rl.p, Tuple(finish_node(rl.p, node), rl.v))
    ELSE expr

parse_expression(p) == parse_expression_expr(start_node(p), parse_expression_2(p))

parse_identifier_statement_lhs(start, lhs) ==
    IF lhs.stop THEN lhs
    ELSE IF at(lhs.p, "Assign")
    THEN LET rhs == self("parse_expression", advance(lhs.p), <<>>)
         IN  IF rhs.stop THEN rhs
             ELSE Ok(rhs.p, [type |-> "AssignStatement",
                             node |-> finish_node(rhs.p, start),
                             targets |-> <<lhs.v>>,
                             value |-> rhs.v])
    ELSE Ok(lhs.p, ExpressionStatement(lhs.v))

parse_identifier_statement(p) ==
    parse_identifier_statement_lhs(start_node(p), parse_expression(p))

parse_statement_expr(expr) ==
    IF expr.stop THEN expr ELSE Ok(expr.p, ExpressionStatement(expr.v))

parse_statement(p) ==
    IF cur_kind(p) = "Identifier"
    THEN parse_identifier_statement(p)
    ELSE parse_statement_expr(parse_expression(p))

parse_conditional_expression_or_test(or_test) ==
    IF or_test.k = "panic" THEN or_test
    ELSE IF at(or_test.p, "If")
    THEN LET test == self("parse_or_test", advance(or_test.p), <<>>)
         IN  IF test.stop THEN test
             ELSE LET re == expect(test.p, "Else")
                  IN  IF re.stop THEN re
                      ELSE LET or_else == self("parse_expression_2", re.p, <<>>)
                           IN  IF or_else.stop THEN or_else
                               ELSE IF or_test.stop
                               THEN Err(or_else.p, or_test.e)
                               ELSE Ok(or_else.p,
                                       [type |-> "IfExp",
                                        node |-> start_node(or_else.p),
                                        test |-> test.v,
                                        body |-> or_test.v,
                                        orelse |-> or_else.v])
    ELSE or_test

parse_conditional_expression(p) ==
    parse_conditional_expression_or_test(parse_or_test(p))

parse_assignment_expression(p) ==
    LET node == start_node(p)
    IN  IF at(p, "Identifier") /\ peek_kind(p) = LexError
        THEN Err(p, LexDiag(Node(toks[next_index(p.cur)].start,
                                 toks[next_index(p.cur)].end)))
        ELSE IF at(p, "Identifier") /\ peek_kind(p) = "Walrus"
        THEN LET identifier == cur_token(p).value
                 p1 == advance(p)
                 identifier_node == finish_node(p1, finish_node(p, start_node(p)))
             IN  IF at(p1, "Walrus")
                 THEN LET value == self("parse_expression_2", advance(p1), <<>>)
                      IN  IF value.stop THEN value
                          ELSE Ok(value.p,
                                  [type |-> "NamedExpr",
                                   node |-> finish_node(value.p, node),
                                   target |-> Name(identifier_node, identifier),
                                   value |-> value.v])
                 ELSE Ok(p1, Name(identifier_node, identifier))
        ELSE self("parse_expression_2", p, <<>>)

(***************************************************************************)
(* The precedence chain.                                                   *)
(***************************************************************************)
parse_or_test_lhs(node, lhs) ==
    IF lhs.stop THEN lhs
    ELSE IF at(lhs.p, "Or")
    THEN LET rhs == self("parse_or_test", advance(lhs.p), <<>>)
         IN  IF rhs.stop THEN rhs
             ELSE Ok(rhs.p, [type |-> "BoolOp",
                             node |-> finish_node(rhs.p, node),
                             op |-> "Or",
                             values |-> <<lhs.v, rhs.v>>])
    ELSE lhs

parse_or_test(p) == parse_or_test_lhs(start_node(p), parse_and_test(p))

parse_and_test_lhs(node, lhs) ==
    IF lhs.stop THEN lhs
    ELSE IF at(lhs.p, "And")
    THEN LET rhs == self("parse_not_test", bump(lhs.p, "And"), <<>>)
         IN  IF rhs.stop THEN rhs
             ELSE Ok(rhs.p, [type |-> "BoolOp",
                             node |-> finish_node(rhs.p, node),
                             op |-> "And",
                             values |-> <<lhs.v, rhs.v>>])
    ELSE lhs

parse_and_test(p) == parse_and_test_lhs(start_node(p), parse_not_test(p))

parse_not_test(p) ==
    LET node == start_node(p)
    IN  IF at(p, "Not")
        THEN LET operand == self("parse_not_test", bump(p, "Not"), <<>>)
             IN  IF operand.stop THEN operand
                 ELSE Ok(operand.p, [type |-> "UnaryOp",
                                     node |-> finish_node(operand.p, node),
                                     op |-> "Not",
                                     operand |-> operand.v])
        ELSE parse_comparison(p)

parse_comp_operator(p) ==
    LET node == start_node(p)
        kind == cur_kind(p)
        simple == [Less |-> "Lt", Greater |-> "Gt", LessEq |-> "LtE",
                   GreaterEq |-> "GtE", Eq |-> "Eq", NotEq |-> "NotEq",
                   In |-> "In"]
    IN  IF kind \in DOMAIN simple
        THEN Ok(bump_any(p), simple[kind])
        ELSE IF kind = "Is"
        THEN IF peek_kind(p) = "Not"
             THEN Ok(bump_any(bump_any(p)), "IsNot")
             ELSE Ok(bump_any(p), "Is")
        ELSE IF kind = "Not" /\ peek_kind(p) = "In"
        THEN Ok(bump_any(bump_any(p)), "NotIn")
        ELSE Err(p, UnexpectedToken(kind, finish_node(p, node)))

parse_comparison_or_expr(or_expr) ==
    IF or_expr.k = "panic" THEN or_expr
    ELSE IF is_comparison_operator(cur_kind(or_expr.p))
    THEN LET comp_operator == parse_comp_operator(or_expr.p)
         IN  IF comp_operator.stop THEN comp_operator
             ELSE LET rhs == self("parse_or_expr", comp_operator.p, <<>>)
                  IN  IF rhs.stop THEN rhs
                      ELSE Panic(rhs.p, "not implemented")
    ELSE or_expr

parse_comparison(p) == parse_comparison_or_expr(parse_or_expr(p))

parse_or_expr_xor_expr(node, xor_expr) ==
    IF xor_expr.stop THEN xor_expr
    ELSE IF at(xor_expr.p, "BitOr")
    THEN LET lhs == self("parse_xor_expr", advance(xor_expr.p), <<>>)
         IN  IF lhs.stop THEN lhs
             ELSE Ok(lhs.p, BinOp(finish_node(lhs.p, node), "BitOr",
                                  xor_expr.v, lhs.v))
    ELSE xor_expr

parse_or_expr(p) == parse_or_expr_xor_expr(start_node(p), parse_xor_expr(p))

parse_xor_expr_and_expr(node, and_expr) ==
    IF and_expr.stop THEN and_expr
    ELSE IF at(and_expr.p, "BitXor")
    THEN LET lhs == self("parse_and_expr", advance(and_expr.p), <<>>)
         IN  IF lhs.stop THEN lhs
             ELSE Ok(lhs.p, BinOp(finish_node(lhs.p, node), "BitXor",
                                  and_expr.v, lhs.v))
    ELSE and_expr

parse_xor_expr(p) == parse_xor_expr_and_expr(start_node(p), parse_and_expr(p))

parse_and_expr_shift_expr(node, shift_expr) ==
    IF shift_expr.stop THEN shift_expr
    ELSE IF at(shift_expr.p, "BitAnd")
    THEN LET lhs == self("parse_shift_expr", advance(shift_expr.p), <<>>)
         IN  IF lhs.stop THEN lhs
             ELSE Ok(lhs.p, BinOp(finish_node(lhs.p, node), "BitAnd",
                                  shift_expr.v, lhs.v))
    ELSE shift_expr

parse_and_expr(p) == parse_and_expr_shift_expr(start_node(p), parse_shift_expr(p))

parse_shift_expr_arith_expr(node, arith_expr) ==
    IF arith_expr.stop THEN arith_expr
    ELSE IF at(arith_expr.p, "LeftShift") \/ at(arith_expr.p, "RightShift")
    THEN LET op == IF at(arith_expr.p, "LeftShift") THEN "LShift" ELSE "RShift"
             lhs == self("parse_binary_arithmetic_operation", advance(arith_expr.p), <<>>)
         IN  IF lhs.stop THEN lhs
             ELSE Ok(lhs.p, BinOp(finish_node(lhs.p, node), op,
                                  arith_expr.v, lhs.v))
    ELSE arith_expr

parse_shift_expr(p) ==
    parse_shift_expr_arith_expr(start_node(p), parse_binary_arithmetic_operation(p))

parse_bin_arithmetic_op(p) ==
    LET kind == cur_kind(p)
        ops == [Plus |-> "Add", Minus |-> "Sub", Mul |-> "Mult", Div |-> "Div",
                IntDiv |-> "FloorDiv", Mod |-> "Mod", Pow |-> "Pow",
                MatrixMul |-> "MatMult"]
    IN  IF kind \in DOMAIN ops
        THEN Ok(bump_any(p), ops[kind])
        ELSE Err(bump_any(p), UnexpectedToken(kind, start_node(p)))

parse_binary_arithmetic_operation_lhs(node, lhs) ==
    IF lhs.stop THEN lhs
    ELSE IF is_bin_arithmetic_op(cur_kind(lhs.p))
    THEN LET op == parse_bin_arithmetic_op(lhs.p)
         IN  IF op.stop THEN op
             ELSE LET rhs == self("parse_unary_arithmetric_operation", op.p, <<>>)
                  IN  IF rhs.stop THEN rhs
                      ELSE Ok(rhs.p, BinOp(finish_node(rhs.p, node), op.v,
                                           lhs.v, rhs.v))
    ELSE lhs

parse_binary_arithmetic_operation(p) ==
    parse_binary_arithmetic_operation_lhs(start_node(p),
                                          parse_unary_arithmetric_operation(p))

parse_unary_arithmetric_operation(p) ==
    LET node == start_node(p)
    IN  IF is_unary_op(cur_kind(p))
        THEN LET op == map_unary_operator(cur_kind(p))
                 operand == self("parse_unary_arithmetric_operation", bump_any(p), <<>>)
             IN  IF operand.stop THEN operand
                 ELSE Ok(operand.p, [type |-> "UnaryOp",
                                     node |-> finish_node(operand.p, node),
                                     op |-> op,
                                     operand |-> operand.v])
        ELSE parse_power_expression(p)

parse_power_expression_base(node, base) ==
    IF base.k = "panic" THEN base
    ELSE IF at(base.p, "Pow")
    THEN LET exponent == self("parse_unary_arithmetric_operation", advance(base.p), <<>>)
         IN  IF exponent.stop THEN exponent
             ELSE IF base.stop THEN Err(exponent.p, base.e)
             ELSE Ok(exponent.p, BinOp(finish_node(exponent.p, node), "Pow",
                                       base.v, exponent.v))
    ELSE base

parse_power_expression_value(node, value) ==
    IF value.stop THEN value
    ELSE parse_power_expression_base(node,
             Ok(value.p, [type |-> "Await",
                          node |-> finish_node(value.p, node),
                          value |-> value.v]))

parse_power_expression(p) ==
    IF at(p, "Await")
    THEN parse_power_expression_value(start_node(p),
                                      self("parse_primary", bump(p, "Await"), <<>>))
    ELSE parse_power_expression_base(start_node(p), parse_primary(p))

(***************************************************************************)
(* Primaries: attribute references, subscripts, calls.                     *)
(***************************************************************************)
parse_atribute_ref_loop(p, node, expr) ==
    IF at(p, "Dot")
    THEN LET p1 == advance(p)
             attr_val == cur_token(p1).value
             re == expect(p1, "Identifier")
         IN  IF re.stop THEN re
             ELSE parse_atribute_ref_loop(re.p, node,
                      [type |-> "Attribute",
                       node |-> finish_node(re.p, node),
                       value |-> expr,
                       attr |-> attr_val])
    ELSE Ok(p, expr)

parse_atribute_ref(p, node, value) == self("parse_atribute_ref_loop", p, <<node, value>>)

parse_subscript_loop(p, node, expr) ==
    IF at(p, "LeftBrace")
    THEN LET slice == self("parse_slice_list", advance(p), <<>>)
         IN  IF slice.stop THEN slice
             ELSE parse_subscript_loop(slice.p, node,
                      [type |-> "Subscript",
                       node |-> finish_node(slice.p, node),
                       value |-> expr,
                       slice |-> slice.v])
    ELSE Ok(p, expr)

parse_subscript(p, node, value) == self("parse_subscript_loop", p, <<node, value>>)

parse_keyword_item(p) ==
    LET node == start_node(p)
        arg == cur_token(p).value
        p2 == bump(bump(p, "Identifier"), "Assign")
        value == self("parse_expression_2", p2, <<>>)
    IN  IF value.stop THEN value
        ELSE Ok(value.p, [type |-> "Keyword",
                          node |-> finish_node(value.p, node),
                          arg |-> <<arg>>,
                          value |-> value.v])

\* the argument loop with seen_keyword never set
RECURSIVE parse_call_loop_forgets_keywords(_, _, _, _)
parse_call_loop_forgets_keywords(p, args, keywords, seen_keyword) ==
    LET done(q, a, kw) == Ok(q, [args |-> a, keywords |-> kw])
        next(q, a, kw, seen) ==
            IF at(q, "Comma")
            THEN parse_call_loop_forgets_keywords(advance(q), a, kw, FALSE)
            ELSE done(q, a, kw)
    IN  IF at(p, "RightParen") THEN done(p, args, keywords)
        ELSE IF at(p, "Identifier") /\ peek_kind(p) = "Assign"
        THEN LET keyword_arg == self("parse_keyword_item", p, <<>>)
             IN  IF keyword_arg.k = "panic" THEN keyword_arg
                 ELSE IF keyword_arg.k = "err"
                 THEN Err(keyword_arg.p,
                          ExpectToken("Keyword argument", cur_kind(keyword_arg.p),
                                      finish_node(keyword_arg.p,
                                                  start_node(keyword_arg.p))))
                 ELSE next(keyword_arg.p, args, Append(keywords, keyword_arg.v), TRUE)
        ELSE IF at(p, "Mul")
        THEN LET star_arg_node == start_node(p)
                 p1 == bump(p, "Mul")
                 value == self("parse_expression_2", p1, <<>>)
             IN  IF value.stop THEN value
                 ELSE next(value.p,
                           Append(args, [type |-> "Starred",
                                         node |-> finish_node(p1, star_arg_node),
                                         value |-> value.v]),
                           keywords, seen_keyword)
        ELSE IF at(p, "Pow")
        THEN LET kwarg_node == start_node(p)
                 p1 == bump(p, "Pow")
                 value == self("parse_expression_2", p1, <<>>)
             IN  IF value.stop THEN value
                 ELSE next(value.p, args,
                           Append(keywords, [type |-> "Keyword",
                                             node |-> finish_node(p1, kwarg_node),
                                             arg |-> <<>>,
                                             value |-> value.v]),
                           TRUE)
        ELSE IF seen_keyword
        THEN Err(p, ExpectToken("Positional argument after keyword argument",
                                cur_kind(p), finish_node(p, start_node(p))))
        ELSE LET arg == self("parse_assignment_expression", p, <<>>)
             IN  IF arg.stop THEN arg
                 ELSE next(arg.p, Append(args, arg.v), keywords, seen_keyword)

\* One pass of the argument loop of a call; acc is
\* [args, keywords, seen_keyword].  The result value is acc at the break.
parse_call_loop(p, args, keywords, seen_keyword) ==
    LET done(q, a, kw) == Ok(q, [args |-> a, keywords |-> kw])
        next(q, a, kw, seen) ==
            IF at(q, "Comma")
            THEN parse_call_loop(advance(q), a, kw, seen)
            ELSE done(q, a, kw)
    IN  IF at(p, "RightParen") THEN done(p, args, keywords)
        ELSE IF at(p, "Identifier") /\ peek_kind(p) = "Assign"
        THEN LET keyword_arg == self("parse_keyword_item", p, <<>>)
             IN  IF keyword_arg.k = "panic" THEN keyword_arg
                 ELSE IF keyword_arg.k = "err"
                 THEN Err(keyword_arg.p,
                          ExpectToken("Keyword argument", cur_kind(keyword_arg.p),
                                      finish_node(keyword_arg.p,
                                                  start_node(keyword_arg.p))))
                 ELSE next(keyword_arg.p, args, Append(keywords, keyword_arg.v), TRUE)
        ELSE IF at(p, "Mul")
        THEN LET star_arg_node == start_node(p)
                 p1 == bump(p, "Mul")
                 value == self("parse_expression_2", p1, <<>>)
             IN  IF value.stop THEN value
                 ELSE next(value.p,
                           Append(args, [type |-> "Starred",
                                         node |-> finish_node(p1, star_arg_node),
                                         value |-> value.v]),
                           keywords, seen_keyword)
        ELSE IF at(p, "Pow")
        THEN LET kwarg_node == start_node(p)
                 p1 == bump(p, "Pow")
                 value == self("parse_expression_2", p1, <<>>)
             IN  IF value.stop THEN value
                 ELSE next(value.p, args,
                           Append(keywords, [type |-> "Keyword",
                                             node |-> finish_node(p1, kwarg_node),
                                             arg |-> <<>>,
                                             value |-> value.v]),
                           TRUE)
        ELSE IF seen_keyword
        THEN Err(p, ExpectToken("Positional argument after keyword argument",
                                cur_kind(p), finish_node(p, start_node(p))))
        ELSE LET arg == self("parse_assignment_expression", p, <<>>)
             IN  IF arg.stop THEN arg
                 ELSE next(arg.p, Append(args, arg.v), keywords, seen_keyword)

parse_primary_atom_or_primary(node, atom_or_primary) ==
    IF atom_or_primary.stop THEN atom_or_primary
    ELSE IF at(atom_or_primary.p, "Dot")
    THEN self("parse_atribute_ref", atom_or_primary.p, <<node, atom_or_primary.v>>)
    ELSE IF at(atom_or_primary.p, "LeftBrace")
    THEN self("parse_subscript", atom_or_primary.p, <<node, atom_or_primary.v>>)
    ELSE IF at(atom_or_primary.p, "LeftParen")
    THEN LET rl == self("parse_call_loop", advance(atom_or_primary.p), <<<<>>, <<>>, FALSE>>)
         IN  IF rl.stop THEN rl
             ELSE LET re == expect(bump(rl.p, "Comma"), "RightParen")
                  IN  IF re.stop THEN re
                      ELSE Ok(re.p, [type |-> "Call",
                                     node |-> finish_node(re.p, node),
                                     func |-> atom_or_primary.v,
                                     args |-> rl.v.args,
                                     keywords |-> rl.v.keywords])
    ELSE atom_or_primary

parse_primary(p) ==
    IF is_atom(cur_kind(p))
    THEN parse_primary_atom_or_primary(start_node(p), parse_atom(p))
    ELSE Panic(p, "not implemented: parse_primary")

(***************************************************************************)
(* Atoms.                                                                  *)
(***************************************************************************)
Constant(node, kind, value) ==
    [type |-> "Constant", node |-> node, kind |-> kind, value |-> value]

\* string.rs: the two operands are string constants or interpolated strings
concat_string_exprs(p, lhs, rhs) ==
    LET node == Node(lhs.node.start, rhs.node.end)
        parts(e) == IF e.type = "JoinedStr" THEN e.values ELSE <<e>>
    IN  IF lhs.type = "Constant" /\ rhs.type = "Constant"
        THEN IF lhs.kind = rhs.kind
             THEN Ok(p, Constant(node, lhs.kind, lhs.value \o rhs.value))
             ELSE Err(p, InvalidSyntax("Cannot concat bytes and string", node))
        ELSE Ok(p, [type |-> "JoinedStr", node |-> node,
                    values |-> parts(lhs) \o parts(rhs)])

parse_fstring_loop(p, expressions) ==
    IF cur_kind(p) = "FStringEnd" THEN Ok(bump(p, "FStringEnd"), expressions)
    ELSE IF cur_kind(p) = "FStringMiddle"
    THEN LET str_val == cur_token(p).value
             p1 == bump(p, "FStringMiddle")
         IN  parse_fstring_loop(p1,
                 Append(expressions, Constant(start_node(p1), "Str", <<str_val>>)))
    ELSE IF cur_kind(p) = "LeftBracket"
    THEN LET r == self("parse_expression", bump(p, "LeftBracket"), <<>>)
         IN  IF r.stop THEN r
             ELSE LET re == expect(r.p, "RightBracket")
                  IN  IF re.stop THEN re
                      ELSE self("parse_fstring_loop", re.p, <<Append(expressions, r.v)>>)
    ELSE Err(p, UnexpectedToken("unknown token in fstring",
                                finish_node(p, start_node(p))))

parse_fstring(p) == self("parse_fstring_loop", p, <<<<>>>>)

map_to_atom(p, start, kind, value) ==
    CASE kind = "Identifier" -> Ok(p, Name(finish_node(p, start), value))
      [] kind = "Integer" -> Ok(p, Constant(finish_node(p, start), "Int", <<value>>))
      [] kind = "None" -> Ok(p, Constant(finish_node(p, start), "None", <<>>))
      [] kind = "True" -> Ok(p, Constant(finish_node(p, start), "Bool", <<"true">>))
      [] kind = "False" -> Ok(p, Constant(finish_node(p, start), "Bool", <<"false">>))
      [] kind = "ImaginaryInteger" ->
            Ok(p, Constant(finish_node(p, start), "Complex", <<"0", value>>))
      [] kind \in {"Bytes", "RawBytes"} ->
            Ok(p, Constant(finish_node(p, start), "Bytes", <<value>>))
      [] kind \in {"StringLiteral", "RawString"} ->
            Ok(p, Constant(finish_node(p, start), "Str", <<value>>))
      [] kind = "FStringStart" ->
            LET fstring == self("parse_fstring", p, <<>>)
            IN  IF fstring.stop THEN fstring
                ELSE Ok(fstring.p, [type |-> "JoinedStr",
                                    node |-> finish_node(fstring.p, start),
                                    values |-> fstring.v])
      [] OTHER -> Err(p, InvalidSyntax("Unexpected token", finish_node(p, start)))

\* the concatenation loop that skips a line break at any bracket depth
parse_atom_concat_across_lines(p, node, expr) ==
    IF is_string(cur_kind(p))
    THEN LET token_value == cur_token(p).value
             token_kind == cur_kind(p)
             next_str == self("map_to_atom", bump_any(p), <<node, token_kind, token_value>>)
         IN  IF next_str.stop THEN next_str
             ELSE LET rc == concat_string_exprs(next_str.p, expr, next_str.v)
                  IN  IF rc.stop THEN rc
                      ELSE self("parse_atom_concat", rc.p, <<node, rc.v>>)
    ELSE IF at(p, "WhiteSpace")
    THEN self("parse_atom_concat", advance(p), <<node, expr>>)
    ELSE IF at(p, "Indent") \/ at(p, "NewLine") \/ at(p, "Dedent")
    THEN self("parse_atom_concat", bump_any(p), <<node, expr>>)
    ELSE Ok(p, expr)

\* the string concatenation loop of parse_atom
parse_atom_concat(p, node, expr) ==
    IF is_string(cur_kind(p))
    THEN LET token_value == cur_token(p).value
             token_kind == cur_kind(p)
             next_str == self("map_to_atom", bump_any(p), <<node, token_kind, token_value>>)
         IN  IF next_str.stop THEN next_str
             ELSE LET rc == concat_string_exprs(next_str.p, expr, next_str.v)
                  IN  IF rc.stop THEN rc
                      ELSE parse_atom_concat(rc.p, node, rc.v)
    ELSE IF at(p, "WhiteSpace")
    THEN self("parse_atom_concat", advance(p), <<node, expr>>)
    ELSE IF at(p, "Indent") \/ at(p, "NewLine") \/ at(p, "Dedent")
    THEN IF p.nel > 0
         THEN self("parse_atom_concat", bump_any(p), <<node, expr>>)
         ELSE Ok(p, expr)
    ELSE Ok(p, expr)

\* the decrement that an Err of the display skips
leave_list_after_ok(r) ==
    IF r.k = "ok" THEN [r EXCEPT !.p.nel = r.p.nel - 1] ELSE r

\* nested_expression_list -= 1 after the display returned, Ok or Err
leave_list(r) ==
    IF r.k = "panic" THEN r ELSE [r EXCEPT !.p.nel = r.p.nel - 1]

enter_list(p) == [p EXCEPT !.nel = p.nel + 1]

parse_atom(p) ==
    LET node == start_node(p)
    IN  IF at(p, "Yield") THEN parse_yield_expression(p)
        ELSE IF at(p, "LeftBrace") THEN leave_list(parse_list(enter_list(p)))
        ELSE IF at(p, "LeftBracket") THEN leave_list(parse_dict_or_set(enter_list(p)))
        ELSE IF at(p, "LeftParen")
        THEN leave_list(parse_paren_form_or_generator(enter_list(p)))
        ELSE IF at(p, "Identifier")
        THEN LET p1 == bump(p, "Identifier")
             IN  Ok(p1, Name(finish_node(p1, node), cur_token(p).value))
        ELSE IF is_atom(cur_kind(p))
        THEN LET token_value == cur_token(p).value
                 token_kind == cur_kind(p)
                 expr == map_to_atom(bump_any(p), node, token_kind, token_value)
             IN  IF expr.stop THEN expr
                 ELSE IF is_string(token_kind)
                 THEN parse_atom_concat(expr.p, node, expr.v)
                 ELSE expr
        ELSE Err(p, UnexpectedToken(cur_kind(p), finish_node(p, node)))

parse_expression_list_loop(p, expressions) ==
    IF at(p, "Comma") /\ ~at(advance(p), "Eof")
    THEN LET expr == self("parse_expression_2", advance(p), <<>>)
         IN  IF expr.stop THEN expr
             ELSE parse_expression_list_loop(expr.p, Append(expressions, expr.v))
    ELSE Ok(eat(p, "Comma"), expressions)

parse_expression_list(p) ==
    LET node == start_node(p)
        first == self("parse_expression_2", p, <<>>)
    IN  IF first.stop THEN first
        ELSE LET rl == self("parse_expression_list_loop", first.p, <<<<first.v>>>>)
             IN  IF rl.stop THEN rl
                 ELSE IF Len(rl.v) = 1 THEN Ok(rl.p, rl.v[1])
                 ELSE Ok(rl.p, Tuple(finish_node(rl.p, node), rl.v))

parse_yield_expression(p) ==
    LET yield_node == start_node(p)
        p1 == bump(p, "Yield")
    IN  IF at(p1, "From")
        THEN LET value == self("parse_expression_2", advance(p1), <<>>)
             IN  IF value.stop THEN value
                 ELSE Ok(value.p, [type |-> "YieldFrom",
                                   node |-> finish_node(value.p, yield_node),
                                   value |-> value.v])
        ELSE IF at(p1, "NewLine") \/ at(p1, "Eof")
        THEN LET p2 == eat(p1, "NewLine")
             IN  Ok(p2, [type |-> "Yield",
                         node |-> finish_node(p2, yield_node),
                         value |-> NoneOpt])
        ELSE LET r == self("parse_expression_list", p1, <<>>)
             IN  IF r.k = "panic" THEN r
                 ELSE Ok(r.p, [type |-> "Yield",
                               node |-> finish_node(r.p, yield_node),
                               value |-> IF r.k = "ok" THEN r.v ELSE NoneOpt])

(***************************************************************************)
(* Displays: lists, parenthesized forms, generators, sets, dictionaries.   *)
(***************************************************************************)
parse_starred_item(p) ==
    LET node == start_node(p)
    IN  IF at(p, "Mul")
        THEN LET p1 == advance(p)
                 starred_value_kind == cur_kind(p1)
                 expr == self("parse_or_expr", p1, <<>>)
             IN  IF expr.stop THEN expr
                 ELSE IF ~is_iterable(expr.v)
                 THEN Err(expr.p, UnexpectedToken(starred_value_kind,
                                                  finish_node(expr.p, node)))
                 ELSE Ok(expr.p, [type |-> "Starred",
                                  node |-> finish_node(expr.p, node),
                                  value |-> expr.v])
        ELSE self("parse_assignment_expression", p, <<>>)

parse_starred_list_loop(p, termination_kind, expressions) ==
    IF ~at(p, "Eof") /\ ~at(p, termination_kind)
    THEN LET expr == self("parse_starred_item", p, <<>>)
         IN  IF expr.stop THEN expr
             ELSE IF ~at(expr.p, "Eof") /\ ~at(expr.p, termination_kind)
             THEN LET re == expect(expr.p, "Comma")
                  IN  IF re.stop THEN re
                      ELSE parse_starred_list_loop(re.p, termination_kind,
                                                   Append(expressions, expr.v))
             ELSE self("parse_starred_list_loop", expr.p, <<termination_kind, Append(expressions, expr.v)>>)
    ELSE Ok(p, expressions)

parse_starred_list(p, termination_kind) ==
    self("parse_starred_list_loop", p, <<termination_kind, <<>>>>)

parse_list(p) ==
    LET node == start_node(p)
        elements == self("parse_starred_list", bump(p, "LeftBrace"), <<"RightBrace">>)
    IN  IF elements.stop THEN elements
        ELSE LET re == expect(elements.p, "RightBrace")
             IN  IF re.stop THEN re
                 ELSE Ok(re.p, [type |-> "List",
                                node |-> finish_node(re.p, node),
                                elements |-> elements.v])

\* the value is [elements, seen_comma]
parse_starred_expression_loop(p, elements, seen_comma) ==
    IF ~at(p, "Eof") /\ ~at(p, "RightParen")
    THEN LET re == expect(p, "Comma")
         IN  IF re.stop THEN re
             ELSE IF at(re.p, "RightParen")
             THEN Ok(re.p, [elements |-> elements, seen_comma |-> seen_comma])
             ELSE LET expr == self("parse_starred_item", re.p, <<>>)
                  IN  IF expr.stop THEN expr
                      ELSE parse_starred_expression_loop(expr.p,
                               Append(elements, expr.v), TRUE)
    ELSE Ok(p, [elements |-> elements, seen_comma |-> seen_comma])

parse_starred_expression(p, node, first_elm) ==
    LET rl == self("parse_starred_expression_loop", p, <<<<first_elm>>, FALSE>>)
    IN  IF rl.stop THEN rl
        ELSE IF Len(rl.v.elements) = 1 /\ ~rl.v.seen_comma
        THEN Ok(rl.p, rl.v.elements[1])
        ELSE Ok(rl.p, Tuple(finish_node(rl.p, node), rl.v.elements))

parse_comp_for_ifs(p, ifs) ==
    LET r == self("parse_or_test", p, <<>>)
    IN  IF r.stop THEN r
        ELSE IF at(r.p, "If")
        THEN parse_comp_for_ifs(advance(r.p), Append(ifs, r.v))
        ELSE Ok(r.p, Append(ifs, r.v))

parse_target_list_loop(p, targets) ==
    LET r == self("parse_target", p, <<>>)
    IN  IF r.stop THEN r
        ELSE IF at(r.p, "Comma")
        THEN parse_target_list_loop(advance(r.p), Append(targets, r.v))
        ELSE Ok(r.p, Append(targets, r.v))

parse_target_list(p) ==
    LET node == start_node(p)
        rl == self("parse_target_list_loop", p, <<<<>>>>)
    IN  IF rl.stop THEN rl
        ELSE IF Len(rl.v) = 1 THEN Ok(rl.p, rl.v[1])
        ELSE Ok(rl.p, Tuple(finish_node(rl.p, node), rl.v))

parse_comp_for_loop(p, is_async, generators) ==
    LET node == start_node(p)
        rf == expect(p, "For")
    IN  IF rf.stop THEN rf
        ELSE LET target == self("parse_target_list", rf.p, <<>>)
             IN  IF target.stop THEN target
                 ELSE LET ri == expect(target.p, "In")
                      IN  IF ri.stop THEN ri
                          ELSE LET iter == self("parse_or_test", ri.p, <<>>)
                               IN  IF iter.stop THEN iter
                                   ELSE LET ifs == IF at(iter.p, "If")
                                                   THEN self("parse_comp_for_ifs", advance(iter.p), <<<<>>>>)
                                                   ELSE Ok(iter.p, <<>>)
                                            gens == Append(generators,
                                                      [type |-> "Comprehension",
                                                       node |-> finish_node(ifs.p, node),
                                                       target |-> target.v,
                                                       iter |-> iter.v,
                                                       ifs |-> ifs.v,
                                                       is_async |-> is_async])
                                        IN  IF ifs.stop THEN ifs
                                            ELSE IF cur_kind(ifs.p) = "For"
                                            THEN parse_comp_for_loop(ifs.p, is_async, gens)
                                            ELSE Ok(ifs.p, gens)

parse_comp_for(p) == self("parse_comp_for_loop", eat(p, "Async"), <<at(p, "Async"), <<>>>>)

parse_paren_form_or_generator(p) ==
    LET node == start_node(p)
        rp == expect(p, "LeftParen")
        p1 == rp.p
        starred == self("parse_or_expr", advance(p1), <<>>)
        first_expr ==
            IF at(p1, "Identifier") /\ peek_kind(p1) = "Walrus"
            THEN self("parse_assignment_expression", p1, <<>>)
            ELSE IF at(p1, "Mul")
            THEN IF starred.stop THEN starred
                 ELSE Ok(starred.p, [type |-> "Starred",
                                     node |-> finish_node(starred.p, node),
                                     value |-> starred.v])
            ELSE self("parse_expression_2", p1, <<>>)
    IN  IF rp.stop THEN rp
        ELSE IF at(p1, "RightParen")
        THEN Ok(p1, Tuple(finish_node(p1, node), <<>>))
        ELSE IF first_expr.stop THEN first_expr
        ELSE IF cur_kind(first_expr.p) = "For" \/ peek_kind(first_expr.p) = "For"
        THEN LET generators == self("parse_comp_for", first_expr.p, <<>>)
             IN  IF generators.stop THEN generators
                 ELSE LET re == expect(generators.p, "RightParen")
                      IN  IF re.stop THEN re
                          ELSE Ok(re.p, [type |-> "Generator",
                                         node |-> finish_node(re.p, node),
                                         element |-> first_expr.v,
                                         generators |-> generators.v])
        ELSE LET expr == self("parse_starred_expression", first_expr.p, <<node, first_expr.v>>)
             IN  IF expr.stop THEN expr
                 ELSE LET re == expect(expr.p, "RightParen")
                      IN  IF re.stop THEN re ELSE Ok(re.p, expr.v)

parse_set(p, node) ==
    LET elements == self("parse_starred_list", p, <<"RightBracket">>)
    IN  IF elements.stop THEN elements
        ELSE LET re == expect(elements.p, "RightBracket")
             IN  IF re.stop THEN re
                 ELSE Ok(re.p, [type |-> "Set",
                                node |-> finish_node(re.p, node),
                                elements |-> elements.v])

consume_whitespace_and_newline(p) ==
    IF cur_kind(p) \in {"WhiteSpace", "NewLine", "Indent", "Dedent"}
    THEN consume_whitespace_and_newline(bump(p, cur_kind(p)))
    ELSE p

\* the value is [keys, values]
parse_dict_loop(p, keys, values) ==
    IF at(p, "RightBracket")
    THEN Ok(advance(p), [keys |-> keys, values |-> values])
    ELSE LET key == self("parse_expression_2", p, <<>>)
         IN  IF key.stop THEN key
             ELSE LET rc == expect(key.p, "Colon")
                  IN  IF rc.stop THEN rc
                      ELSE LET value == self("parse_expression_2", rc.p, <<>>)
                           IN  IF value.stop THEN value
                               ELSE IF ~at(value.p, "RightBracket")
                               THEN LET rm == expect(value.p, "Comma")
                                    IN  IF rm.stop THEN rm
                                        ELSE parse_dict_loop(
                                                 consume_whitespace_and_newline(rm.p),
                                                 Append(keys, key.v),
                                                 Append(values, value.v))
                               ELSE self("parse_dict_loop", value.p, <<Append(keys, key.v), Append(values, value.v)>>)

parse_dict(p, node) ==
    LET rl == self("parse_dict_loop", p, <<<<>>, <<>>>>)
    IN  IF rl.stop THEN rl
        ELSE Ok(rl.p, [type |-> "Dict",
                       node |-> finish_node(rl.p, node),
                       keys |-> rl.v.keys,
                       values |-> rl.v.values])

parse_dict_or_set(p) ==
    LET node == start_node(p)
        p1 == bump(p, "LeftBracket")
    IN  IF peek_kind(p1) = "Comma"
        THEN self("parse_set", p1, <<node>>)
        ELSE self("parse_dict", p1, <<node>>)

(***************************************************************************)
(* Targets.                                                                *)
(***************************************************************************)
\* the loops of parse_target over the elements of a bracketed target list
parse_target_elements(p, elements) ==
    LET r == self("parse_target", p, <<>>)
    IN  IF r.stop THEN r
        ELSE IF at(r.p, "Comma")
        THEN parse_target_elements(advance(r.p), Append(elements, r.v))
        ELSE Ok(r.p, Append(elements, r.v))

\* the trailing loop of parse_target
parse_target_loop(p, targets) ==
    IF at(p, "Comma")
    THEN LET p1 == advance(p)
         IN  IF cur_kind(p1) \notin {"Identifier", "LeftBrace", "LeftParen", "Mul"}
             THEN Ok(p1, targets)
             ELSE LET next_target == self("parse_target", p1, <<>>)
                  IN  IF next_target.stop THEN next_target
                      ELSE parse_target_loop(next_target.p,
                                             Append(targets, next_target.v))
    ELSE Ok(p, targets)

parse_target(p) ==
    LET node == start_node(p)
        kind == cur_kind(p)
        atom == self("parse_atom", p, <<>>)
        target ==
            CASE kind = "Identifier" /\ peek_kind(p) = "LeftBrace" ->
                    IF atom.stop THEN atom
                    ELSE self("parse_subscript", atom.p, <<node, atom.v>>)
              [] kind = "Identifier" /\ peek_kind(p) = "Dot" ->
                    IF atom.stop THEN atom
                    ELSE self("parse_atribute_ref", atom.p, <<node, atom.v>>)
              [] kind = "LeftBrace" ->
                    LET rl == self("parse_target_elements", bump(p, "LeftBrace"), <<<<>>>>)
                    IN  IF rl.stop THEN rl
                        ELSE LET re == expect(rl.p, "RightBrace")
                             IN  IF re.stop THEN re
                                 ELSE Ok(re.p, [type |-> "List",
                                                node |-> finish_node(re.p, node),
                                                elements |-> rl.v])
              [] kind = "LeftParen" ->
                    LET rl == self("parse_target_elements", bump(p, "LeftParen"), <<<<>>>>)
                    IN  IF rl.stop THEN rl
                        ELSE LET re == expect(rl.p, "RightParen")
                             IN  IF re.stop THEN re
                                 ELSE IF Len(rl.v) = 1 THEN Ok(re.p, rl.v[1])
                                 ELSE Ok(re.p, Tuple(finish_node(re.p, node), rl.v))
              \* Starred { node, value: self.parse_target()? } with the `*`
              \* still the current token: the recursion never ends
              [] kind = "Mul" -> Panic(p, "stack overflow: parse_target")
              [] OTHER -> Panic(p, "invalid target")
    IN  IF kind = "Identifier" /\ peek_kind(p) \notin {"LeftBrace", "Dot"}
        THEN LET identifier == cur_token(p).value
                 re == expect(p, "Identifier")
             IN  Ok(re.p, Name(finish_node(re.p, finish_node(p, start_node(p))),
                               identifier))
        ELSE IF target.stop THEN target
        ELSE LET rl == self("parse_target_loop", target.p, <<<<target.v>>>>)
             IN  IF rl.stop THEN rl
                 ELSE IF Len(rl.v) = 1 THEN Ok(rl.p, rl.v[1])
                 ELSE Ok(rl.p, Tuple(finish_node(rl.p, node), rl.v))

(***************************************************************************)
(* Slices.                                                                 *)
(***************************************************************************)
parse_proper_slice(p, lower) ==
    LET node == start_node(p)
        first == self("parse_expression_2", p, <<>>)
        slice_lower ==
            IF lower # NoneOpt THEN Ok(p, lower)
            ELSE IF at(p, "Colon") THEN Ok(advance(p), NoneOpt)
            ELSE first
        part(q) ==
            IF at(q, "Colon")
            THEN IF at(advance(q), "RightBrace")
                 THEN Ok(advance(q), NoneOpt)
                 ELSE self("parse_expression_2", advance(q), <<>>)
            ELSE Ok(q, NoneOpt)
    IN  IF slice_lower.stop THEN slice_lower
        ELSE LET upper == part(slice_lower.p)
             IN  IF upper.stop THEN upper
                 ELSE LET step == part(upper.p)
                      IN  IF step.stop THEN step
                          ELSE Ok(step.p, [type |-> "Slice",
                                           node |-> finish_node(step.p, node),
                                           lower |-> slice_lower.v,
                                           upper |-> upper.v,
                                           step |-> step.v])

parse_slice_list_loop(p, elements) ==
    IF ~at(p, "Eof") /\ ~at(p, "RightBrace")
    THEN LET expr == self("parse_expression_2", p, <<>>)
             item == IF at(p, "Colon") THEN self("parse_proper_slice", p, <<NoneOpt>>)
                     ELSE IF expr.stop THEN expr
                     ELSE IF at(expr.p, "Colon")
                     THEN self("parse_proper_slice", expr.p, <<expr.v>>)
                     ELSE expr
         IN  IF item.stop THEN item
             ELSE IF at(item.p, "Comma")
             THEN parse_slice_list_loop(advance(item.p), Append(elements, item.v))
             ELSE Ok(item.p, Append(elements, item.v))
    ELSE Ok(p, elements)

parse_slice_list(p) ==
    LET node == start_node(p)
        rl == self("parse_slice_list_loop", p, <<<<>>>>)
    IN  IF rl.stop THEN rl
        ELSE LET re == expect(rl.p, "RightBrace")
             IN  IF re.stop THEN re
                 ELSE IF Len(rl.v) = 1 THEN Ok(re.p, rl.v[1])
                 ELSE Ok(re.p, Tuple(finish_node(re.p, node), rl.v))

(***************************************************************************)
(* Lambdas and parameter lists.                                            *)
(***************************************************************************)
is_def_parameter(p) == cur_kind(p) = "Identifier"

\* parse_parameter without the "=" and the default after the name
parse_parameter_without_default(p, is_lambda) ==
    LET node == start_node(p)
        arg == cur_token(p).value
        p1 == bump(p, "Identifier")
        annotation == IF at(p1, "Colon") /\ ~is_lambda
                      THEN self("parse_expression_2", bump(p1, "Colon"), <<>>)
                      ELSE Ok(p1, NoneOpt)
    IN  IF annotation.stop THEN annotation
        ELSE Ok(annotation.p,
                [param |-> [type |-> "Arg",
                            node |-> finish_node(annotation.p, node),
                            arg |-> arg,
                            annotation |-> annotation.v],
                 default |-> NoneOpt])

\* the value is [param, default]
parse_parameter(p, is_lambda) ==
    LET node == start_node(p)
        arg == cur_token(p).value
        p1 == bump(p, "Identifier")
        annotation == IF at(p1, "Colon") /\ ~is_lambda
                      THEN self("parse_expression_2", bump(p1, "Colon"), <<>>)
                      ELSE Ok(p1, NoneOpt)
    IN  IF annotation.stop THEN annotation
        ELSE LET default == IF at(annotation.p, "Assign")
                            THEN self("parse_expression_2", advance(annotation.p), <<>>)
                            ELSE Ok(annotation.p, NoneOpt)
             IN  IF default.stop THEN default
                 ELSE Ok(default.p,
                         [param |-> [type |-> "Arg",
                                     node |-> finish_node(default.p, node),
                                     arg |-> arg,
                                     annotation |-> annotation.v],
                          default |-> default.v])

NoParameters ==
    [seen_vararg |-> FALSE, seen_kwarg |-> FALSE, must_have_default |-> FALSE,
     posonlyargs |-> <<>>, args |-> <<>>, vararg |-> NoneOpt, kwarg |-> NoneOpt,
     kwonlyargs |-> <<>>, kw_defaults |-> <<>>, defaults |-> <<>>]

\* s holds the local variables of parse_parameters
parse_parameters_loop(p, is_lambda, node, s) ==
    IF is_def_parameter(p)
    THEN LET r == self("parse_parameter", p, <<is_lambda>>)
             s1 == IF s.seen_vararg
                   THEN [s EXCEPT !.kwonlyargs = Append(@, r.v.param)]
                   ELSE [s EXCEPT !.args = Append(@, r.v.param)]
             s2 == IF r.v.default # NoneOpt
                   THEN IF s.seen_vararg
                        THEN [s1 EXCEPT !.kw_defaults = Append(@, r.v.default)]
                        ELSE [s1 EXCEPT !.must_have_default = TRUE,
                                        !.defaults = Append(@, r.v.default)]
                   ELSE s1
         IN  IF r.stop THEN r
             ELSE IF ~s.seen_vararg /\ s.seen_kwarg
             THEN Err(r.p, InvalidSyntax("parameter after kwarg",
                                         finish_node(r.p, node)))
             ELSE IF r.v.default = NoneOpt /\ s.must_have_default
             THEN Err(r.p, InvalidSyntax(
                               "non-default argument follows default argument",
                               finish_node(r.p, node)))
             ELSE parse_parameters_loop(r.p, is_lambda, node, s2)
    ELSE IF at(p, "Mul")
    THEN LET r == self("parse_parameter", advance(p), <<is_lambda>>)
         IN  IF r.stop THEN r
             ELSE IF r.v.default # NoneOpt
             THEN Err(r.p, InvalidSyntax(
                               "var-positional argument cannot have default value",
                               finish_node(r.p, node)))
             ELSE self("parse_parameters_loop", r.p, <<is_lambda, node, [s EXCEPT !.seen_vararg = TRUE, !.vararg = r.v.param]>>)
    ELSE IF at(p, "Pow")
    THEN LET r == self("parse_parameter", advance(p), <<is_lambda>>)
         IN  IF r.stop THEN r
             ELSE IF r.v.default # NoneOpt
             THEN Err(r.p, InvalidSyntax(
                               "var-keyword argument cannot have default value",
                               finish_node(r.p, node)))
             ELSE self("parse_parameters_loop", r.p, <<is_lambda, node, [s EXCEPT !.seen_kwarg = TRUE, !.kwarg = r.v.param]>>)
    ELSE IF at(p, "Comma")
    THEN self("parse_parameters_loop", advance(p), <<is_lambda, node, s>>)
    ELSE IF at(p, "Div")
    THEN self("parse_parameters_loop", advance(p), <<is_lambda, node, [s EXCEPT !.posonlyargs = s.args, !.args = <<>>]>>)
    ELSE Ok(p, [type |-> "Arguments",
                node |-> finish_node(p, node),
                posonlyargs |-> s.posonlyargs,
                args |-> s.args,
                vararg |-> s.vararg,
                kwonlyargs |-> s.kwonlyargs,
                kw_defaults |-> s.kw_defaults,
                kwarg |-> s.kwarg,
                defaults |-> s.defaults])

parse_parameters(p, is_lambda) ==
    self("parse_parameters_loop", p, <<is_lambda, start_node(p), NoParameters>>)

parse_expression_2(p) ==
    LET node == start_node(p)
    IN  IF at(p, "Lambda")
        THEN LET params_list == self("parse_parameters", advance(p), <<TRUE>>)
             IN  IF params_list.k = "panic" THEN params_list
                 ELSE IF params_list.k = "err"
                 THEN Panic(params_list.p, "lambda params")
                 ELSE LET rc == expect(params_list.p, "Colon")
                      IN  IF rc.stop THEN rc
                          ELSE LET expr == self("parse_expression_2", rc.p, <<>>)
                               IN  IF expr.stop THEN expr
                                   ELSE Ok(expr.p,
                                           [type |-> "Lambda",
                                            node |-> finish_node(expr.p, node),
                                            args |-> params_list.v,
                                            body |-> expr.v])
        ELSE parse_conditional_expression(p)

(***************************************************************************)
(* The call self.f(...): the procedure f applied to the cursor p and the   *)
(* arguments a.                                                            *)
(***************************************************************************)
self(f, p, a) ==
    CASE f = "parse_expression_loop" -> parse_expression_loop(p, a[1])
      [] f = "parse_expression" -> parse_expression(p)
      [] f = "parse_identifier_statement" -> parse_identifier_statement(p)
      [] f = "parse_statement" -> parse_statement(p)
      [] f = "parse_conditional_expression" -> parse_conditional_expression(p)
      [] f = "parse_assignment_expression" -> parse_assignment_expression(p)
      [] f = "parse_or_test" -> parse_or_test(p)
      [] f = "parse_and_test" -> parse_and_test(p)
      [] f = "parse_not_test" -> parse_not_test(p)
      [] f = "parse_comp_operator" -> parse_comp_operator(p)
      [] f = "parse_comparison" -> parse_comparison(p)
      [] f = "parse_or_expr" -> parse_or_expr(p)
      [] f = "parse_xor_expr" -> parse_xor_expr(p)
      [] f = "parse_and_expr" -> parse_and_expr(p)
      [] f = "parse_shift_expr" -> parse_shift_expr(p)
      [] f = "parse_bin_arithmetic_op" -> parse_bin_arithmetic_op(p)
      [] f = "parse_binary_arithmetic_operation" -> parse_binary_arithmetic_operation(p)
      [] f = "parse_unary_arithmetric_operation" -> parse_unary_arithmetric_operation(p)
      [] f = "parse_power_expression" -> parse_power_expression(p)
      [] f = "parse_atribute_ref_loop" -> parse_atribute_ref_loop(p, a[1], a[2])
      [] f = "parse_atribute_ref" -> parse_atribute_ref(p, a[1], a[2])
      [] f = "parse_subscript_loop" -> parse_subscript_loop(p, a[1], a[2])
      [] f = "parse_subscript" -> parse_subscript(p, a[1], a[2])
      [] f = "parse_keyword_item" -> parse_keyword_item(p)
      [] f = "parse_call_loop" -> parse_call_loop(p, a[1], a[2], a[3])
      [] f = "parse_primary" -> parse_primary(p)
      [] f = "parse_fstring_loop" -> parse_fstring_loop(p, a[1])
      [] f = "parse_fstring" -> parse_fstring(p)
      [] f = "map_to_atom" -> map_to_atom(p, a[1], a[2], a[3])
      [] f = "parse_atom_concat" -> parse_atom_concat(p, a[1], a[2])
      [] f = "parse_atom" -> parse_atom(p)
      [] f = "parse_expression_list_loop" -> parse_expression_list_loop(p, a[1])
      [] f = "parse_expression_list" -> parse_expression_list(p)
      [] f = "parse_yield_expression" -> parse_yield_expression(p)
      [] f = "parse_starred_item" -> parse_starred_item(p)
      [] f = "parse_starred_list_loop" -> parse_starred_list_loop(p, a[1], a[2])
      [] f = "parse_starred_list" -> parse_starred_list(p, a[1])
      [] f = "parse_list" -> parse_list(p)
      [] f = "parse_starred_expression_loop" -> parse_starred_expression_loop(p, a[1], a[2])
      [] f = "parse_starred_expression" -> parse_starred_expression(p, a[1], a[2])
      [] f = "parse_comp_for_ifs" -> parse_comp_for_ifs(p, a[1])
      [] f = "parse_target_list_loop" -> parse_target_list_loop(p, a[1])
      [] f = "parse_target_list" -> parse_target_list(p)
      [] f = "parse_comp_for_loop" -> parse_comp_for_loop(p, a[1], a[2])
      [] f = "parse_comp_for" -> parse_comp_for(p)
      [] f = "parse_paren_form_or_generator" -> parse_paren_form_or_generator(p)
      [] f = "parse_set" -> parse_set(p, a[1])
      [] f = "parse_dict_loop" -> parse_dict_loop(p, a[1], a[2])
      [] f = "parse_dict" -> parse_dict(p, a[1])
      [] f = "parse_dict_or_set" -> parse_dict_or_set(p)
      [] f = "parse_target_elements" -> parse_target_elements(p, a[1])
      [] f = "parse_target_loop" -> parse_target_loop(p, a[1])
      [] f = "parse_target" -> parse_target(p)
      [] f = "parse_proper_slice" -> parse_proper_slice(p, a[1])
      [] f = "parse_slice_list_loop" -> parse_slice_list_loop(p, a[1])
      [] f = "parse_slice_list" -> parse_slice_list(p)
      [] f = "parse_parameter" -> parse_parameter(p, a[1])
      [] f = "parse_parameters_loop" -> parse_parameters_loop(p, a[1], a[2], a[3])
      [] f = "parse_parameters" -> parse_parameters(p, a[1])
      [] f = "parse_expression_2" -> parse_expression_2(p)

(***************************************************************************)
(* The inputs: every stream of at most MaxLen tokens over one of the       *)
(* vocabularies, and the sources of the parser's own tests.                *)
(***************************************************************************)
Vocabularies ==
    { {"Identifier", "LeftParen", "RightParen", "Comma", "Mul"},
      {"Identifier", "LeftBracket", "RightBracket", "Colon", "Comma"},
      {"Identifier", "Less", "If", "Else", "Plus"},
      {"Identifier", "NewLine", "LeftBracket", "Assign", LexError},
      {"FStringStart", "FStringMiddle", "FStringEnd", "StringLiteral", "Identifier"} }

TestCases ==
    { \* "a = 1, 2"
      <<"Identifier", "Assign", "Integer", "Comma", "Integer">>,
      \* "a or b or c"
      <<"Identifier", "Or", "Identifier", "Or", "Identifier">>,
      \* "a ** b"
      <<"Identifier", "Pow", "Identifier">>,
      \* "(a := b)"
      <<"LeftParen", "Identifier", "Walrus", "Identifier", "RightParen">>,
      \* "[a, b, c,]"
      <<"LeftBrace", "Identifier", "Comma", "Identifier", "Comma", "Identifier",
        "Comma", "RightBrace">>,
      \* "yield from a"
      <<"Yield", "From", "Identifier">>,
      \* "await a"
      <<"Await", "Identifier">>,
      \* "a[b, c:d:e, f]"
      <<"Identifier", "LeftBrace", "Identifier", "Comma", "Identifier", "Colon",
        "Identifier", "Colon", "Identifier", "Comma", "Identifier", "RightBrace">>,
      \* "a.b.c"
      <<"Identifier", "Dot", "Identifier", "Dot", "Identifier">>,
      \* "func(a, b=c, d=e, *f, **g)"
      <<"Identifier", "LeftParen", "Identifier", "Comma", "Identifier", "Assign",
        "Identifier", "Comma", "Identifier", "Assign", "Identifier", "Comma",
        "Mul", "Identifier", "Comma", "Pow", "Identifier", "RightParen">>,
      \* "lambda a, *b, c, **d: a"
      <<"Lambda", "Identifier", "Comma", "Mul", "Identifier", "Comma", "Identifier",
        "Comma", "Pow", "Identifier", "Colon", "Identifier">>,
      \* "(a for a in b if c if d)"
      <<"LeftParen", "Identifier", "For", "Identifier", "In", "Identifier", "If",
        "Identifier", "If", "Identifier", "RightParen">>,
      \* "a if b else c if d else e"
      <<"Identifier", "If", "Identifier", "Else", "Identifier", "If", "Identifier",
        "Else", "Identifier">>,
      \* "f'hello_{a} {b}'"
      <<"FStringStart", "FStringMiddle", "LeftBracket", "Identifier", "RightBracket",
        "FStringMiddle", "LeftBracket", "Identifier", "RightBracket", "FStringEnd">> }

Generated ==
    UNION { UNION { [1..n -> V] : n \in 0..MaxLen } : V \in Vocabularies }

\* the tokens that open a nested expression: "(", "[", "{" and yield
Openers == {"LeftParen", "LeftBrace", "LeftBracket", "Yield"}

Opened(ks) == Cardinality({ i \in DOMAIN ks : ks[i] \in Openers })

\* Parser::new unwraps the first token
Streams ==
    { ks \in Generated : /\ Len(ks) = 0 \/ ks[1] # LexError
                         /\ Opened(ks) <= MaxNest }
        \cup TestCases

(***************************************************************************)
(* The module driver, Parser::parse.                                       *)
(***************************************************************************)
NoDiag == [diag |-> "", a |-> "", b |-> "", range |-> Node(0, 0)]

Report(op, kind, before, r) ==
    [op |-> op, kind |-> kind, before |-> before, k |-> r.k,
     e |-> IF r.k = "err" THEN r.e ELSE NoDiag, after |-> r.p]

Init ==
    /\ \E ks \in Streams : toks = Lex(ks)
    /\ cur = 1
    /\ pte = 0
    /\ nel = 0
    /\ ns = 0
    /\ body = <<>>
    /\ pc = "parsing"
    /\ last = [op |-> "new", kind |-> "", before |-> [cur |-> 1, pte |-> 0, nel |-> 0, ns |-> 0],
               k |-> "ok", e |-> NoDiag,
               after |-> [cur |-> 1, pte |-> 0, nel |-> 0, ns |-> 0]]

SetCursor(p) ==
    /\ cur' = p.cur
    /\ pte' = p.pte
    /\ nel' = p.nel
    /\ ns' = p.ns

\* the body of the while loop, stmt being what self.parse_statement() gave:
\* an Ok statement is pushed; an Err is printed and one token is skipped; and
\* when parse_statement did not return, neither does parse
Iteration(stmt) ==
    /\ last' = Report("parse_statement", cur_kind(Cursor), Cursor, stmt)
    /\ \/ /\ stmt.k = "ok"
          /\ body' = Append(body, stmt.v)
          /\ SetCursor(stmt.p)
          /\ pc' = pc
       \/ /\ stmt.k = "err"
          /\ SetCursor(bump_any(stmt.p))
          /\ UNCHANGED <<body, pc>>
       \/ /\ stmt.k = "panic"
          /\ pc' = "aborted"
          /\ UNCHANGED <<cur, pte, nel, ns, body>>
    /\ UNCHANGED toks

Statement ==
    /\ pc = "parsing"
    /\ cur_kind(Cursor) # "Eof"
    /\ Iteration(self("parse_statement", Cursor, <<>>))

\* the loop ends at Eof and the Module is returned
ReturnModule ==
    /\ pc = "parsing"
    /\ cur_kind(Cursor) = "Eof"
    /\ pc' = "done"
    /\ last' = [op |-> "parse", kind |-> "Eof", before |-> Cursor, k |-> "ok",
                e |-> NoDiag, after |-> Cursor]
    /\ UNCHANGED <<toks, cur, pte, nel, ns, body>>

Next == Statement \/ ReturnModule

Spec == Init /\ [][Next]_vars

\* the Module node of a finished parse
ModuleNode == finish_node(Cursor, Node(toks[1].start, 0))

(***************************************************************************)
(* The cursor operations on their own: any sequence of them, applied to    *)
(* any stream.  nested_expression_list moves as parse_atom moves it.       *)
(***************************************************************************)
CursorKinds == {"Identifier", "Comma", "RightParen", "NewLine", "Eof"}

CursorInit ==
    /\ \E ks \in Streams : Len(ks) <= 3 /\ toks = Lex(ks)
    /\ cur = 1
    /\ pte = 0
    /\ nel = 0
    /\ ns = 0
    /\ body = <<>>
    /\ pc = "parsing"
    /\ last = [op |-> "new", kind |-> "", before |-> [cur |-> 1, pte |-> 0, nel |-> 0, ns |-> 0],
               k |-> "ok", e |-> NoDiag,
               after |-> [cur |-> 1, pte |-> 0, nel |-> 0, ns |-> 0]]

Apply(op, kind, r) ==
    /\ last' = Report(op, kind, Cursor, r)
    /\ SetCursor(r.p)
    /\ UNCHANGED <<toks, body, pc>>

Expect(kind) ==
    /\ pc = "parsing"
    /\ Apply("expect", kind, expect(Cursor, kind))

Eat(kind) ==
    /\ pc = "parsing"
    /\ Apply("eat", kind, Ok(eat(Cursor, kind), at(Cursor, kind)))

Bump(kind) ==
    /\ pc = "parsing"
    /\ Apply("bump", kind, Ok(bump(Cursor, kind), "unit"))

Advance ==
    /\ pc = "parsing"
    /\ Apply("advance", cur_kind(Cursor), Ok(advance(Cursor), "unit"))

EnterList ==
    /\ nel < MaxNest
    /\ Apply("enter_list", cur_kind(Cursor), Ok(enter_list(Cursor), "unit"))

LeaveList ==
    /\ nel > 0
    /\ Apply("leave_list", cur_kind(Cursor), leave_list(Ok(Cursor, "unit")))

CursorNext ==
    \/ \E kind \in CursorKinds : Expect(kind) \/ Eat(kind) \/ Bump(kind)
    \/ Advance
    \/ EnterList
    \/ LeaveList

CursorSpec == CursorInit /\ [][CursorNext]_vars

(***************************************************************************)
(* The tree (ast.rs): the nodes directly under a node, in source order,    *)
(* and all the nodes of a tree.                                            *)
(***************************************************************************)
Some(opt) == IF opt = NoneOpt THEN <<>> ELSE <<opt>>

children(e) ==
    CASE e.type \in {"Name", "Constant"} -> <<>>
      [] e.type \in {"Tuple", "List", "Set"} -> e.elements
      [] e.type \in {"ExpressionStatement", "Await", "YieldFrom", "Starred",
                     "Keyword", "Attribute"} -> <<e.value>>
      [] e.type = "AssignStatement" -> e.targets \o <<e.value>>
      [] e.type = "BinOp" -> <<e.left, e.right>>
      [] e.type = "IfExp" -> <<e.test, e.body, e.orelse>>
      [] e.type = "NamedExpr" -> <<e.target, e.value>>
      [] e.type \in {"BoolOp", "JoinedStr"} -> e.values
      [] e.type = "UnaryOp" -> <<e.operand>>
      [] e.type = "Yield" -> Some(e.value)
      [] e.type = "Subscript" -> <<e.value, e.slice>>
      [] e.type = "Call" -> <<e.func>> \o e.args \o e.keywords
      [] e.type = "Comprehension" -> <<e.target, e.iter>> \o e.ifs
      [] e.type = "Generator" -> <<e.element>> \o e.generators
      [] e.type = "Dict" -> e.keys \o e.values
      [] e.type = "Slice" -> Some(e.lower) \o Some(e.upper) \o Some(e.step)
      [] e.type = "Arg" -> Some(e.annotation)
      [] e.type = "Arguments" ->
            e.posonlyargs \o e.args \o Some(e.vararg) \o e.kwonlyargs
                \o e.kw_defaults \o Some(e.kwarg) \o e.defaults
      [] e.type = "Lambda" -> <<e.args, e.body>>

has_node(e) == "node" \in DOMAIN e

\* every node of the tree e has its start at or before its end
RECURSIVE spans_ordered(_)
spans_ordered(e) ==
    /\ has_node(e) => e.node.start <= e.node.end
    /\ \A i \in DOMAIN children(e) : spans_ordered(children(e)[i])

\* every node of the tree e lies within the node it is directly under
RECURSIVE spans_nested(_)
spans_nested(e) ==
    \A i \in DOMAIN children(e) :
        /\ has_node(e) => /\ e.node.start <= children(e)[i].node.start
                          /\ children(e)[i].node.end <= e.node.end
        /\ spans_nested(children(e)[i])

\* the kinds of the token stream, Eof left out
Kinds == [i \in 1..(Len(toks) - 1) |-> toks[i].kind]

\* the token that follows token i: lexer errors deliver no token
NextToken(i) ==
    IF i >= Len(toks) THEN Len(toks)
    ELSE CHOOSE j \in (i + 1)..Len(toks) :
            /\ toks[j].kind # LexError
            /\ \A l \in (i + 1)..(j - 1) : toks[l].kind = LexError

(***************************************************************************)
(* Further inputs: the sources of one construct each, built from its       *)
(* grammar, and the module driver started on them.                         *)
(***************************************************************************)
\* the sequences of ss, one after the other
RECURSIVE Join(_)
Join(ss) == IF ss = <<>> THEN <<>> ELSE Head(ss) \o Join(Tail(ss))

\* Parser::new on one of the sources of S
InitOn(S) ==
    /\ \E ks \in S : toks = Lex(ks)
    /\ cur = 1
    /\ pte = 0
    /\ nel = 0
    /\ ns = 0
    /\ body = <<>>
    /\ pc = "parsing"
    /\ last = [op |-> "new", kind |-> "", before |-> [cur |-> 1, pte |-> 0, nel |-> 0, ns |-> 0],
               k |-> "ok", e |-> NoDiag,
               after |-> [cur |-> 1, pte |-> 0, nel |-> 0, ns |-> 0]]

\* the positions of the tokens of kind k, and the n-th of them
Positions(k) == { i \in DOMAIN Kinds : Kinds[i] = k }

Nth(k, n) ==
    CHOOSE i \in Positions(k) : Cardinality({ j \in Positions(k) : j < i }) = n - 1

\* the tokens of kind k from position i up to, not including, position j
Count(k, i, j) == Cardinality({ l \in Positions(k) : i <= l /\ l < j })

\* most for clauses of a generated generator, and most ifs of a clause
MaxClauses == 2

MaxIfs == 2

\* [async] for a in b [if c]*
Clause(async, ifs) ==
    (IF async THEN <<"Async">> ELSE <<>>)
        \o <<"For", "Identifier", "In", "Identifier">>
        \o Join([i \in 1..ifs |-> <<"If", "Identifier">>])

ClauseShapes == [async : BOOLEAN, ifs : 0..MaxIfs]

\* "(a <clause> ... <clause>)"
GeneratorStreams ==
    { <<"LeftParen", "Identifier">>
        \o Join([i \in DOMAIN cs |-> Clause(cs[i].async, cs[i].ifs)])
        \o <<"RightParen">> :
      cs \in UNION { [1..n -> ClauseShapes] : n \in 1..MaxClauses } }

GeneratorInit == InitOn(GeneratorStreams)

GeneratorSpec == GeneratorInit /\ [][Next]_vars

\* most arguments of a generated call
MaxArgs == 3

\* an argument: a, a=b, *a or **a
Argument(form) ==
    CASE form = "positional" -> <<"Identifier">>
      [] form = "keyword" -> <<"Identifier", "Assign", "Identifier">>
      [] form = "star" -> <<"Mul", "Identifier">>
      [] form = "double_star" -> <<"Pow", "Identifier">>

ArgumentForms == {"positional", "keyword", "star", "double_star"}

\* the parts of ss with a comma between each two
RECURSIVE Separated(_)
Separated(ss) ==
    IF Len(ss) <= 1 THEN Join(ss)
    ELSE Head(ss) \o <<"Comma">> \o Separated(Tail(ss))

\* "f(<argument>, ..., <argument>)"
CallStreams ==
    { <<"Identifier", "LeftParen">>
        \o Separated([i \in DOMAIN fs |-> Argument(fs[i])])
        \o <<"RightParen">> :
      fs \in UNION { [1..n -> ArgumentForms] : n \in 0..MaxArgs } }

CallInit == InitOn(CallStreams)

CallSpec == CallInit /\ [][Next]_vars

\* most parameters of a generated lambda
MaxParams == 3

\* a parameter: a, a=1, *a, *a=1, **a, **a=1, or the marker /
Parameter(form) ==
    CASE form = "plain" -> <<"Identifier">>
      [] form = "default" -> <<"Identifier", "Assign", "Integer">>
      [] form = "star" -> <<"Mul", "Identifier">>
      [] form = "star_default" -> <<"Mul", "Identifier", "Assign", "Integer">>
      [] form = "double_star" -> <<"Pow", "Identifier">>
      [] form = "double_star_default" -> <<"Pow", "Identifier", "Assign", "Integer">>
      [] form = "slash" -> <<"Div">>

ParameterForms ==
    {"plain", "default", "star", "star_default", "double_star",
     "double_star_default", "slash"}

\* "lambda <parameter>, ..., <parameter>: a"
LambdaStreams ==
    { <<"Lambda">>
        \o Separated([i \in DOMAIN fs |-> Parameter(fs[i])])
        \o <<"Colon", "Identifier">> :
      fs \in UNION { [1..n -> ParameterForms] : n \in 0..MaxParams } }

LambdaInit == InitOn(LambdaStreams)

\* parse_parameters(true) on its own, called as parse_expression_2 calls it,
\* after the lambda keyword: what it returns, params_list, is kept in last,
\* and the Arguments of an Ok in body
Parameters(params_list) ==
    /\ last' = Report("parse_parameters", cur_kind(Cursor), Cursor, params_list)
    /\ body' = IF params_list.k = "ok" THEN <<params_list.v>> ELSE <<>>
    /\ SetCursor(params_list.p)
    /\ pc' = "returned"
    /\ UNCHANGED toks

ParseParameters ==
    /\ pc = "parsing"
    /\ cur = 1
    /\ at(Cursor, "Lambda")
    /\ Parameters(self("parse_parameters", advance(Cursor), <<TRUE>>))

LambdaNext == Statement \/ ReturnModule \/ ParseParameters

LambdaSpec == LambdaInit /\ [][LambdaNext]_vars

\* most items of a generated slice list
MaxSlices == 2

\* an item of a slice list: an expression, or lower? : upper? with or
\* without : step?
SliceItem(s) ==
    IF ~s.colon THEN <<"Identifier">>
    ELSE (IF s.lower THEN <<"Identifier">> ELSE <<>>)
            \o <<"Colon">>
            \o (IF s.upper THEN <<"Identifier">> ELSE <<>>)
            \o (IF s.second THEN <<"Colon">> ELSE <<>>)
            \o (IF s.second /\ s.step THEN <<"Identifier">> ELSE <<>>)

SliceShapes ==
    { s \in [colon : BOOLEAN, lower : BOOLEAN, upper : BOOLEAN,
             second : BOOLEAN, step : BOOLEAN] :
        /\ s.colon \/ (s.lower /\ ~s.upper /\ ~s.second)
        /\ s.second \/ ~s.step }

\* "a[<item>, ..., <item>]"
SubscriptStreams ==
    { <<"Identifier", "LeftBrace">>
        \o Separated([i \in DOMAIN ss |-> SliceItem(ss[i])])
        \o <<"RightBrace">> :
      ss \in UNION { [1..n -> SliceShapes] : n \in 1..MaxSlices } }

SubscriptInit == InitOn(SubscriptStreams)

SubscriptSpec == SubscriptInit /\ [][Next]_vars

\* most suffixes of a generated primary
MaxSuffixes == 3

\* a suffix of a primary: .b, [b] or (b)
Suffix(form) ==
    CASE form = "attribute" -> <<"Dot", "Identifier">>
      [] form = "subscript" -> <<"LeftBrace", "Identifier", "RightBrace">>
      [] form = "call" -> <<"LeftParen", "Identifier", "RightParen">>

SuffixForms == {"attribute", "subscript", "call"}

\* "a<suffix>...<suffix>"
PrimaryStreams ==
    { <<"Identifier">> \o Join([i \in DOMAIN fs |-> Suffix(fs[i])]) :
      fs \in UNION { [1..n -> SuffixForms] : n \in 0..MaxSuffixes } }

PrimaryInit == InitOn(PrimaryStreams)

\* parse_primary on its own, at the start of the source: what it returns,
\* primary, is kept in last, and the expression of an Ok in body
Primary(primary) ==
    /\ last' = Report("parse_primary", cur_kind(Cursor), Cursor, primary)
    /\ body' = IF primary.k = "ok" THEN <<primary.v>> ELSE <<>>
    /\ SetCursor(primary.p)
    /\ pc' = "returned"
    /\ UNCHANGED toks

ParsePrimary ==
    /\ pc = "parsing"
    /\ cur = 1
    /\ body = <<>>
    /\ Primary(self("parse_primary", Cursor, <<>>))

PrimaryNext == Statement \/ ReturnModule \/ ParsePrimary

PrimarySpec == PrimaryInit /\ [][PrimaryNext]_vars

\* most operators of a generated run
MaxOperators == 3

\* the binary operators, by the level that parses them
Levels ==
    { {"And"}, {"BitOr"}, {"BitXor"}, {"BitAnd"}, {"LeftShift", "RightShift"},
      {"Plus", "Minus"}, {"Mul", "Div", "Mod"} }

\* "a <op> b ... <op> c", all operators of one level
RunStreams ==
    { <<"Identifier">> \o Join([i \in DOMAIN ops |-> <<ops[i], "Identifier">>]) :
      ops \in UNION { UNION { [1..n -> L] : n \in 1..MaxOperators } : L \in Levels } }

RunInit == InitOn(RunStreams)

RunSpec == RunInit /\ [][Next]_vars

(***************************************************************************)
(* Sources of further constructs, and the driver together with single      *)
(* procedures called on their own at the start of a source.                *)
(***************************************************************************)
Additive == {"Plus", "Minus"}

Multiplicative == {"Mul", "Div", "IntDiv", "Mod", "MatrixMul"}

\* "a + b * c" and "a * b + c"
ArithmeticStreams ==
    { <<"Identifier", op[1], "Identifier", op[2], "Identifier">> :
      op \in (Additive \X Multiplicative) \cup (Multiplicative \X Additive) }

\* most tokens after the first string of a generated string concatenation
MaxGap == 3

LineBreaks == {"NewLine", "Indent", "Dedent"}

\* a string literal, and then strings, blanks and line breaks
StringStreams ==
    { <<"StringLiteral">> \o s :
      s \in UNION { [1..n -> {"StringLiteral", "WhiteSpace"} \cup LineBreaks] :
                    n \in 0..MaxGap } }

\* the one-line displays of two elements: list, tuple, set and dict
Displays ==
    { <<"LeftBrace", "Identifier", "Comma", "Identifier", "RightBrace">>,
      <<"LeftParen", "Identifier", "Comma", "Identifier", "RightParen">>,
      <<"LeftBracket", "Identifier", "Comma", "Identifier", "RightBracket">>,
      <<"LeftBracket", "Identifier", "Colon", "Identifier", "Comma",
        "Identifier", "Colon", "Identifier", "RightBracket">> }

\* a display on one line, or with one blank or line break before the comma
\* between the elements, after it, or before the closing bracket
DisplayStreams ==
    Displays \cup
    { SubSeq(d, 1, i - 1) \o <<b>> \o SubSeq(d, i, Len(d)) :
      <<d, i, b>> \in { t \in Displays \X (1..9) \X ({"WhiteSpace"} \cup LineBreaks) :
                        /\ t[2] \in 2..Len(t[1])
                        /\ \/ t[1][t[2]] = "Comma"
                           \/ t[1][t[2] - 1] = "Comma"
                           \/ t[2] = Len(t[1]) } }

\* left-hand sides that are targets, and left-hand sides that are not
Targets ==
    { <<"Identifier">>,
      <<"Identifier", "Dot", "Identifier">>,
      <<"Identifier", "LeftBrace", "Identifier", "RightBrace">> }

NotTargets ==
    { <<"Identifier", "LeftParen", "RightParen">>,
      <<"Identifier", "Plus", "Identifier">>,
      <<"Identifier", "Less", "Identifier">>,
      <<"Identifier", "And", "Identifier">> }

\* an assignment statement: a left-hand side, "=" and a name
AssignStreams ==
    { lhs \o <<"Assign", "Identifier">> : lhs \in Targets \cup NotTargets }

\* yield and an operand: a name, a list, and displays that are not closed or
\* not complete
YieldStreams ==
    { <<"Yield">> \o operand :
      operand \in { <<"Identifier">>,
                    <<"LeftBrace", "Identifier", "RightBrace">>,
                    <<"LeftBrace", "Identifier">>,
                    <<"LeftParen", "Identifier">>,
                    <<"LeftBracket", "Identifier", "RightBracket">>,
                    <<"LeftBracket", "Identifier", "Colon", "RightBracket">> } }

\* the parenthesized forms: (), (a), (a, b), (a, b,) and (a for b in c)
ParenStreams ==
    { <<"LeftParen">> \o inner \o <<"RightParen">> :
      inner \in { <<>>,
                  <<"Identifier">>,
                  <<"Identifier", "Comma", "Identifier">>,
                  <<"Identifier", "Comma", "Identifier", "Comma">>,
                  <<"Identifier", "For", "Identifier", "In", "Identifier">> } }

\* targets: a, a.b, a[b], [a, b], (a, b), and the starred *a, a, *b and [*a]
TargetStreams ==
    { <<"Identifier">>,
      <<"Identifier", "Dot", "Identifier">>,
      <<"Identifier", "LeftBrace", "Identifier", "RightBrace">>,
      <<"LeftBrace", "Identifier", "Comma", "Identifier", "RightBrace">>,
      <<"LeftParen", "Identifier", "Comma", "Identifier", "RightParen">>,
      <<"Mul", "Identifier">>,
      <<"Identifier", "Comma", "Mul", "Identifier">>,
      <<"LeftBrace", "Mul", "Identifier", "RightBrace">> }

ConstructStreams ==
    ArithmeticStreams \cup StringStreams \cup DisplayStreams \cup AssignStreams
        \cup YieldStreams \cup ParenStreams \cup TargetStreams

ConstructInit == InitOn(ConstructStreams)

\* the procedures that are called on their own
Procedures ==
    {"parse_atom", "parse_paren_form_or_generator", "parse_target",
     "parse_yield_expression"}

\* the procedure f, called by a caller that is depth displays deep: what it
\* returns, r, is kept in last, and the value of an Ok in body
Called(f, before, r) ==
    /\ last' = Report(f, cur_kind(before), before, r)
    /\ body' = IF r.k = "ok" THEN <<r.v>> ELSE <<>>
    /\ SetCursor(r.p)
    /\ pc' = "returned"
    /\ UNCHANGED toks

CallProcedure(f, depth) ==
    /\ pc = "parsing"
    /\ cur = 1
    /\ body = <<>>
    /\ last.op = "new"
    /\ Called(f, [Cursor EXCEPT !.nel = depth],
              self(f, [Cursor EXCEPT !.nel = depth], <<>>))

\* parse_primary on a name up to the first step of parse_subscript: parse_atom
\* has consumed the name, and parse_subscript eats the opening bracket
SubscriptEntered(p) ==
    /\ at(p, "LeftBrace")
    /\ Called("parse_subscript", p, Ok(eat(p, "LeftBrace"), "unit"))

EnterSubscript ==
    /\ pc = "parsing" /\ cur = 1 /\ body = <<>> /\ last.op = "new"
    /\ at(Cursor, "Identifier")
    /\ SubscriptEntered(bump(Cursor, "Identifier"))

ConstructNext ==
    \/ Statement
    \/ ReturnModule
    \/ \E f \in Procedures : \E depth \in 0..MaxNest : CallProcedure(f, depth)
    \/ EnterSubscript

ConstructSpec == ConstructInit /\ [][ConstructNext]_vars

(***************************************************************************)
(* The properties.                                                         *)
(***************************************************************************)

\* C1: Parser::parse returns a Module whatever the token stream holds: the
\* driver is in its loop, where another step can be taken, or has returned.
C1_parse_returns == pc \in {"parsing", "done"}

\* "a )": the statement a is pushed, and at ")" parse_statement does not
\* return
C1_witness ==
    /\ Kinds = <<"Identifier", "RightParen">>
    /\ Len(body) = 1
    /\ pc = "aborted"

\* C2: a statement that begins with a token no construct can begin with (a
\* closing bracket, a separator) fails with UnexpectedToken, which carries
\* that token's kind and span, and the driver goes on.
C2_unexpected_token ==
    (/\ last.op = "parse_statement"
     /\ last.kind \in {"RightParen", "RightBracket", "Comma", "Colon", "Assign"})
        => /\ last.k = "err"
           /\ last.e.diag = "UnexpectedToken"
           /\ last.e.a = last.kind
           /\ last.e.range.start = toks[last.before.cur].start
           /\ pc = "parsing"

\* the statement ")": parse_primary does not return
C2_witness ==
    /\ Kinds = <<"RightParen">>
    /\ last.op = "parse_statement"
    /\ last.k = "panic"

\* C3: after a malformed statement the driver resumes at the next statement
\* boundary, the first token of a line or the end of the stream, so that no
\* statement is built from what is left of the malformed one.
C3_resumes_at_boundary ==
    (last.op = "parse_statement" /\ last.k = "err" /\ pc = "parsing")
        => \/ cur_kind(Cursor) = "Eof"
           \/ toks[cur - 1].kind = "NewLine"

\* "{a b c": the display fails at b, b is skipped, and c becomes a statement
C3_witness ==
    /\ Kinds = <<"LeftBracket", "Identifier", "Identifier", "Identifier">>
    /\ pc = "done"
    /\ Len(body) = 1
    /\ body[1].value.type = "Name"
    /\ body[1].value.node.start = toks[4].start

\* C4: expect(kind) at a token of the wanted kind returns Ok and moves the
\* cursor to the next token; at any other token it returns ExpectToken with
\* the wanted and the found kind and leaves the cursor as it was.
C4_expect_frame ==
    last.op = "expect" =>
        IF toks[last.before.cur].kind = last.kind
        THEN /\ last.k = "ok"
             /\ last.after.cur = NextToken(last.before.cur)
             /\ last.after.pte = toks[last.before.cur].end
             /\ last.after.nel = last.before.nel
             /\ last.after.ns = last.before.ns
        ELSE /\ last.k = "err"
             /\ last.e.diag = "ExpectToken"
             /\ last.e.a = last.kind
             /\ last.e.b = toks[last.before.cur].kind
             /\ last.after = last.before

\* expect has refused a token after the cursor had moved and a list was entered
C4_witness ==
    /\ last.op = "expect"
    /\ last.k = "err"
    /\ last.before.cur > 1
    /\ last.before.nel > 0

\* C5: every node of a returned tree has its start at or before its end.
C5_spans_ordered == \A i \in DOMAIN body : spans_ordered(body[i])

\* "a if b else c": the IfExp starts where the stream ends and ends at 0
C5_witness ==
    /\ Kinds = <<"Identifier", "If", "Identifier", "Else", "Identifier">>
    /\ pc = "done"
    /\ Len(body) = 1
    /\ body[1].value.type = "IfExp"
    /\ body[1].value.node = Node(toks[6].start, 0)

\* C6: every node of a returned tree lies within the node it is directly
\* under.
C6_spans_nested == \A i \in DOMAIN body : spans_nested(body[i])

\* "f(*a)": the Starred argument ends at the star, before the name it holds
C6_witness ==
    /\ Kinds = <<"Identifier", "LeftParen", "Mul", "Identifier", "RightParen">>
    /\ pc = "done"
    /\ Len(body) = 1
    /\ body[1].value.type = "Call"
    /\ body[1].value.args[1].type = "Starred"
    /\ body[1].value.args[1].node = Node(toks[3].start, toks[3].end)
    /\ body[1].value.args[1].value.node = Node(toks[4].start, toks[4].end)

\* C7: a chain of comparisons, a < b < ..., parses to one Compare node that
\* holds every operator and every operand after the first; it does not fail.
C7_compare_chain ==
    (/\ Len(Kinds) >= 3
     /\ Len(Kinds) % 2 = 1
     /\ \A i \in DOMAIN Kinds : Kinds[i] = IF i % 2 = 1 THEN "Identifier" ELSE "Less")
        => /\ pc # "aborted"
           /\ last.k # "err"
           /\ pc = "done" =>
                /\ Len(body) = 1
                /\ body[1].value.type = "Compare"
                /\ Len(body[1].value.ops) = (Len(Kinds) - 1) \div 2
                /\ Len(body[1].value.comparators) = (Len(Kinds) - 1) \div 2

\* "a < b": parse_comparison does not return
C7_witness ==
    /\ Kinds = <<"Identifier", "Less", "Identifier">>
    /\ last.op = "parse_statement"
    /\ last.k = "panic"
    /\ body = <<>>

\* C8: a brace display whose first element is followed by ":" is a Dict, any
\* other is a Set, and the empty one is an empty Dict.
C8_dict_or_set ==
    pc = "done" =>
        /\ Kinds = <<"LeftBracket", "RightBracket">>
            => /\ Len(body) = 1
               /\ body[1].value.type = "Dict"
               /\ body[1].value.keys = <<>>
        /\ Kinds = <<"LeftBracket", "Identifier", "RightBracket">>
            => /\ Len(body) = 1
               /\ body[1].value.type = "Set"
               /\ Len(body[1].value.elements) = 1
        /\ Kinds = <<"LeftBracket", "Identifier", "Comma", "Identifier", "RightBracket">>
            => /\ Len(body) = 1
               /\ body[1].value.type = "Set"
               /\ Len(body[1].value.elements) = 2
        /\ Kinds = <<"LeftBracket", "Identifier", "Colon", "Identifier", "RightBracket">>
            => /\ Len(body) = 1
               /\ body[1].value.type = "Dict"
               /\ Len(body[1].value.keys) = 1

\* "{a}": parsed as a dictionary, which fails for want of a ":"
C8_witness ==
    /\ Kinds = <<"LeftBracket", "Identifier", "RightBracket">>
    /\ last.op = "parse_statement"
    /\ last.k = "err"
    /\ last.e.diag = "ExpectToken"
    /\ last.e.a = "Colon"
    /\ last.e.b = "RightBracket"

\* C9: a parenthesized form of identifiers is the bare identifier when it
\* holds one element and no trailing comma, and otherwise a Tuple of its
\* elements.
C9_paren_form ==
    (/\ pc = "done"
     /\ Len(Kinds) >= 3
     /\ Kinds[1] = "LeftParen"
     /\ Kinds[Len(Kinds)] = "RightParen"
     /\ \A i \in 2..(Len(Kinds) - 1) : Kinds[i] = IF i % 2 = 0 THEN "Identifier" ELSE "Comma")
        => /\ Len(body) = 1
           /\ IF Len(Kinds) = 3
              THEN body[1].value.type = "Name"
              ELSE /\ body[1].value.type = "Tuple"
                   /\ Len(body[1].value.elements) = (Len(Kinds) - 1) \div 2

\* "(a,)": the bare Name is returned
C9_witness ==
    /\ Kinds = <<"LeftParen", "Identifier", "Comma", "RightParen">>
    /\ pc = "done"
    /\ Len(body) = 1
    /\ body[1].value.type = "Name"

\* C10: the source "()" parses to a Module whose body is one expression
\* statement, the empty Tuple; nothing fails.
C10_empty_tuple ==
    Kinds = <<"LeftParen", "RightParen">>
        => /\ pc # "aborted"
           /\ last.k = "ok"
           /\ pc = "done" => /\ Len(body) = 1
                              /\ body[1].type = "ExpressionStatement"
                              /\ body[1].value.type = "Tuple"
                              /\ body[1].value.elements = <<>>

\* "()": the empty Tuple is pushed with ")" still the current token, and at
\* ")" parse_statement does not return
C10_witness ==
    /\ Kinds = <<"LeftParen", "RightParen">>
    /\ Len(body) = 1
    /\ body[1].value.type = "Tuple"
    /\ last.kind = "RightParen"
    /\ pc = "aborted"

\* C11: a parenthesized element followed by comprehension clauses yields one
\* Generator with one Comprehension per for clause, in source order, each
\* with its own if conditions, and each async exactly when its own for is
\* introduced by async; an async on a later clause is accepted.
C11_generator_clauses ==
    Kinds \in GeneratorStreams =>
        /\ pc # "aborted"
        /\ last.k # "err"
        /\ pc = "done" =>
            /\ Len(body) = 1
            /\ body[1].value.type = "Generator"
            /\ body[1].value.element.type = "Name"
            /\ Len(body[1].value.generators) = Cardinality(Positions("For"))
            /\ \A n \in DOMAIN body[1].value.generators :
                LET c == body[1].value.generators[n]
                    from == Nth("For", n)
                    to == IF n = Cardinality(Positions("For"))
                          THEN Len(Kinds) ELSE Nth("For", n + 1)
                IN  /\ c.is_async = (Kinds[from - 1] = "Async")
                    /\ c.target.node.start = toks[from + 1].start
                    /\ c.iter.node.start = toks[from + 3].start
                    /\ Len(c.ifs) = Count("If", from, to)

\* "(a async for a in b for a in b)": the second clause, a plain one, is
\* marked async
C11_witness ==
    /\ Kinds = <<"LeftParen", "Identifier", "Async", "For", "Identifier", "In",
                 "Identifier", "For", "Identifier", "In", "Identifier", "RightParen">>
    /\ pc = "done"
    /\ Len(body) = 1
    /\ body[1].value.type = "Generator"
    /\ Len(body[1].value.generators) = 2
    /\ body[1].value.generators[1].is_async
    /\ body[1].value.generators[2].is_async

\* the bare positional arguments of the call "f(...)" that the stream is, and
\* its keyword and ** arguments, by the position of their first token
BarePositionals ==
    { i \in Positions("Identifier") :
        /\ i > 1
        /\ Kinds[i - 1] \in {"LeftParen", "Comma"}
        /\ Kinds[i + 1] \in {"Comma", "RightParen"} }

KeywordArguments ==
    { i \in DOMAIN Kinds :
        \/ Kinds[i] = "Pow"
        \/ i < Len(Kinds) /\ Kinds[i] = "Identifier" /\ Kinds[i + 1] = "Assign" }

Misordered == \E k \in KeywordArguments : \E i \in BarePositionals : k < i

\* C12: a call whose argument list holds a bare positional argument after a
\* keyword or ** argument fails with a parse error; any other call, a
\* *unpack after a keyword included, is accepted; and no Call that is
\* returned holds a bare positional argument that starts after one of its
\* keyword or ** arguments.
C12_call_argument_order ==
    /\ (Kinds \in CallStreams /\ last.op = "parse_statement" /\ last.before.cur = 1)
        => IF Misordered
           THEN /\ last.k = "err"
                /\ last.e.diag = "ExpectToken"
                /\ last.e.a = "Positional argument after keyword argument"
                /\ toks[last.after.cur].kind = "Identifier"
                /\ last.after.cur \in BarePositionals
                /\ body = <<>>
           ELSE /\ last.k = "ok"
                /\ toks[last.after.cur].kind = "Eof"
                /\ Len(body) = 1
                /\ body[1].value.type = "Call"
                /\ Len(body[1].value.args)
                     = Cardinality(BarePositionals) + Cardinality(Positions("Mul"))
                /\ Len(body[1].value.keywords) = Cardinality(KeywordArguments)
    /\ \A n \in DOMAIN body :
        body[n].value.type = "Call" =>
            \A i \in DOMAIN body[n].value.args : \A k \in DOMAIN body[n].value.keywords :
                body[n].value.args[i].type # "Starred"
                    => body[n].value.args[i].node.start
                         < body[n].value.keywords[k].node.start

\* "f(a=b, *c, d)": the call is refused at d, after the *c was accepted
C12_witness ==
    /\ Kinds = <<"Identifier", "LeftParen", "Identifier", "Assign", "Identifier",
                 "Comma", "Mul", "Identifier", "Comma", "Identifier", "RightParen">>
    /\ last.op = "parse_statement"
    /\ last.before.cur = 1
    /\ last.k = "err"
    /\ last.after.cur = 10

\* the parameters of the lambda that the stream is, by the position of their
\* name: all, the *x, the **x, and the ones that are neither
ParameterNames ==
    { i \in Positions("Identifier") : i < Nth("Colon", 1) }

StarParameters == { i \in ParameterNames : Kinds[i - 1] = "Mul" }

DoubleStarParameters == { i \in ParameterNames : Kinds[i - 1] = "Pow" }

NamedParameters == ParameterNames \ (StarParameters \cup DoubleStarParameters)

HasDefault(i) == Kinds[i + 1] = "Assign"

\* the named parameters before any "*"
Positionals ==
    { i \in NamedParameters : \A m \in Positions("Mul") : i < m }

\* the positional parameters without a default after one with a default
MissingDefaults ==
    { j \in Positionals :
        /\ ~HasDefault(j)
        /\ \E i \in Positionals : i < j /\ HasDefault(i) }

\* what parse_parameters returned for the list, when it was called on its own
Returned == last.op = "parse_parameters"

\* what parse_statement returned for the lambda
Lambda == last.op = "parse_statement" /\ last.before.cur = 1

Min(S) == CHOOSE i \in S : \A j \in S : i <= j

\* C13: a positional parameter without a default after a positional one with
\* a default, both before any "*", makes parse_parameters fail, with the
\* missing-default condition when nothing before it in the list is in error;
\* and the lambda with such a list is a parse error of its statement, after
\* which the driver goes on.
C13_missing_default ==
    (Kinds \in LambdaStreams /\ MissingDefaults # {}) =>
        /\ Returned =>
            /\ last.k = "err"
            /\ last.e.diag = "InvalidSyntax"
            /\ (\A q \in Positions("Pow") \cup Positions("Mul") : Min(MissingDefaults) < q)
                => /\ last.e.a = "non-default argument follows default argument"
                   /\ last.after.cur = Min(MissingDefaults) + 1
        /\ Lambda =>
            /\ last.k = "err"
            /\ pc = "parsing"

\* "lambda a=1, b: a": parse_statement does not return
C13_witness ==
    /\ Kinds = <<"Lambda", "Identifier", "Assign", "Integer", "Comma", "Identifier",
                 "Colon", "Identifier">>
    /\ Lambda
    /\ last.k = "panic"
    /\ pc = "aborted"

\* the positions of S in source order
InOrder(S) ==
    [n \in 1..Cardinality(S) |->
        CHOOSE i \in S : Cardinality({ j \in S : j < i }) = n - 1]

\* the parameters params are the ones named at the positions S, in source order
Holds(params, S) ==
    /\ Len(params) = Cardinality(S)
    /\ \A n \in DOMAIN params :
        /\ params[n].node.start = toks[InOrder(S)[n]].start
        /\ params[n].arg = toks[InOrder(S)[n]].value

\* the named parameters after a "*"
KeywordOnlys == NamedParameters \ Positionals

\* C14: in a list with one *x, whose positional parameters are in order and
\* which holds no ** and no /, every parameter after the * is keyword-only
\* and is accepted with or without a default, whatever defaults the
\* positional parameters carry.
C14_keyword_only ==
    (/\ Kinds \in LambdaStreams
     /\ Returned
     /\ Cardinality(Positions("Mul")) = 1
     /\ Positions("Pow") = {}
     /\ Positions("Div") = {}
     /\ \A i \in StarParameters : ~HasDefault(i)
     /\ MissingDefaults = {})
        => /\ last.k = "ok"
           /\ Holds(body[1].args, Positionals)
           /\ Holds(body[1].kwonlyargs, KeywordOnlys)
           /\ Len(body[1].defaults) = Cardinality({ i \in Positionals : HasDefault(i) })
           /\ Len(body[1].kw_defaults) = Cardinality({ i \in KeywordOnlys : HasDefault(i) })

\* "a=1, *b, c": refused at c for want of a default
C14_witness ==
    /\ Kinds = <<"Lambda", "Identifier", "Assign", "Integer", "Comma", "Mul",
                 "Identifier", "Comma", "Identifier", "Colon", "Identifier">>
    /\ Returned
    /\ last.k = "err"
    /\ last.e.a = "non-default argument follows default argument"
    /\ last.after.cur = 10

\* the **x parameters without a default that a named, a * or a ** parameter
\* follows
FollowedDoubleStars ==
    { k \in DoubleStarParameters :
        /\ ~HasDefault(k)
        /\ \E i \in ParameterNames : k < i }

\* C15: a named, a * or a ** parameter after a **kwarg parameter makes
\* parse_parameters fail, whether or not a * parameter came earlier.
C15_nothing_after_kwarg ==
    (Kinds \in LambdaStreams /\ Returned /\ FollowedDoubleStars # {})
        => last.k = "err"

\* "**a, *b": accepted, with both the kwarg and the vararg set
C15_witness ==
    /\ Kinds = <<"Lambda", "Pow", "Identifier", "Comma", "Mul", "Identifier",
                 "Colon", "Identifier">>
    /\ Returned
    /\ last.k = "ok"
    /\ body[1].kwarg # NoneOpt
    /\ body[1].vararg # NoneOpt

\* the parameters that precede a "/"
BeforeSlash ==
    { i \in ParameterNames : \E d \in Positions("Div") : i < d }

Present(opt) == IF opt = NoneOpt THEN 0 ELSE 1

\* C16: in the Arguments returned, the parameters that precede a "/" are the
\* positional-only ones, in source order, and every parsed parameter is in
\* one of posonlyargs, args, vararg, kwonlyargs and kwarg, also when "/"
\* occurs more than once or after "*".
C16_positional_only ==
    (Kinds \in LambdaStreams /\ Returned /\ last.k = "ok")
        => /\ Holds(body[1].posonlyargs, BeforeSlash)
           /\ Len(body[1].posonlyargs) + Len(body[1].args) + Len(body[1].kwonlyargs)
                + Present(body[1].vararg) + Present(body[1].kwarg)
                = Cardinality(ParameterNames)

\* "a, /, /": the second / replaces the positional-only a by nothing, and a
\* is in no list
C16_witness ==
    /\ Kinds = <<"Lambda", "Identifier", "Comma", "Div", "Comma", "Div", "Colon",
                 "Identifier">>
    /\ Returned
    /\ last.k = "ok"
    /\ body[1].posonlyargs = <<>>
    /\ body[1].args = <<>>
    /\ body[1].kwonlyargs = <<>>
    /\ body[1].vararg = NoneOpt
    /\ body[1].kwarg = NoneOpt

\* the *x and **x parameters that carry a default
DefaultedStars ==
    { i \in StarParameters \cup DoubleStarParameters : HasDefault(i) }

Field(opt, i) ==
    IF Kinds[i] = "Identifier"
    THEN /\ opt # NoneOpt
         /\ opt.type = "Name"
         /\ opt.node.start = toks[i].start
    ELSE opt = NoneOpt

\* C18: in "a[lower? : upper? : step?]" the expression before the first
\* colon is the lower bound, the one after it the upper bound and the one
\* after the second colon the step, each of them optional.
C18_slice_fields ==
    (/\ Kinds \in SubscriptStreams
     /\ Positions("Comma") = {}
     /\ Positions("Colon") # {}
     /\ last.op = "parse_statement"
     /\ last.before.cur = 1)
        => /\ last.k = "ok"
           /\ Len(body) = 1
           /\ body[1].value.type = "Subscript"
           /\ body[1].value.slice.type = "Slice"
           /\ Field(body[1].value.slice.lower, Nth("Colon", 1) - 1)
           /\ Field(body[1].value.slice.upper, Nth("Colon", 1) + 1)
           /\ IF Cardinality(Positions("Colon")) = 2
              THEN Field(body[1].value.slice.step, Nth("Colon", 2) + 1)
              ELSE body[1].value.slice.step = NoneOpt

\* "a[::b]": b is made the upper bound, and the slice has no step
C18_witness ==
    /\ Kinds = <<"Identifier", "LeftBrace", "Colon", "Colon", "Identifier",
                 "RightBrace">>
    /\ pc = "done"
    /\ Len(body) = 1
    /\ body[1].value.slice.type = "Slice"
    /\ body[1].value.slice.lower = NoneOpt
    /\ body[1].value.slice.upper # NoneOpt
    /\ body[1].value.slice.upper.node.start = toks[5].start
    /\ body[1].value.slice.step = NoneOpt

\* the tokens that begin a suffix of the primary that the stream is
SuffixPositions ==
    Positions("Dot") \cup Positions("LeftBrace") \cup Positions("LeftParen")

\* e is the atom of the stream with its first n suffixes, nested left to right
RECURSIVE Chained(_, _)
Chained(e, n) ==
    IF n = 0 THEN e.type = "Name" /\ e.node.start = toks[1].start
    ELSE LET i == InOrder(SuffixPositions)[n]
         IN  CASE Kinds[i] = "Dot" ->
                    /\ e.type = "Attribute"
                    /\ e.attr = toks[i + 1].value
                    /\ Chained(e.value, n - 1)
               [] Kinds[i] = "LeftBrace" ->
                    /\ e.type = "Subscript"
                    /\ e.slice.node.start = toks[i + 1].start
                    /\ Chained(e.value, n - 1)
               [] Kinds[i] = "LeftParen" ->
                    /\ e.type = "Call"
                    /\ Len(e.args) = 1
                    /\ e.args[1].node.start = toks[i + 1].start
                    /\ Chained(e.func, n - 1)

\* C19: parse_primary on an atom followed by any mix of .name, [...] and
\* (...) suffixes returns one expression that nests them left to right, and
\* leaves no token of a suffix unconsumed.
C19_primary_chain ==
    (Kinds \in PrimaryStreams /\ last.op = "parse_primary")
        => /\ last.k = "ok"
           /\ toks[last.after.cur].kind = "Eof"
           /\ Chained(body[1], Cardinality(SuffixPositions))

\* "a.b(c)": parse_primary returns the Attribute a.b with "(" as the
\* current token
C19_witness ==
    /\ Kinds = <<"Identifier", "Dot", "Identifier", "LeftParen", "Identifier",
                 "RightParen">>
    /\ last.op = "parse_primary"
    /\ last.k = "ok"
    /\ body[1].type = "Attribute"
    /\ body[1].value.type = "Name"
    /\ last.after.cur = 4

\* e holds the first n operators of the run that the stream is, with their
\* operands, grouped to the left: a BinOp or a BoolOp of two operands, or,
\* for "and", one BoolOp of all the operands
RECURSIVE LeftFolded(_, _)
LeftFolded(e, n) ==
    IF n = 0 THEN e.type = "Name" /\ e.node.start = toks[1].start
    ELSE \/ /\ e.type = "BinOp"
            /\ e.right.type = "Name"
            /\ e.right.node.start = toks[2 * n + 1].start
            /\ LeftFolded(e.left, n - 1)
         \/ /\ e.type = "BoolOp"
            /\ Len(e.values) = 2
            /\ e.values[2].type = "Name"
            /\ e.values[2].node.start = toks[2 * n + 1].start
            /\ LeftFolded(e.values[1], n - 1)
         \/ /\ e.type = "BoolOp"
            /\ Len(e.values) = n + 1
            /\ \A i \in DOMAIN e.values :
                /\ e.values[i].type = "Name"
                /\ e.values[i].node.start = toks[2 * i - 1].start

\* C20: a run of binary operators of one level is parsed into one
\* expression that holds all the operands, grouped to the left, and no
\* operator of the run is left to start the next statement.
C20_operator_runs ==
    (Kinds \in RunStreams /\ last.op = "parse_statement" /\ last.before.cur = 1)
        => /\ last.k = "ok"
           /\ toks[last.after.cur].kind = "Eof"
           /\ Len(body) = 1
           /\ LeftFolded(body[1].value, Len(Kinds) \div 2)

\* "a + b + c": the statement a + b, and then the statement + c
C20_witness ==
    /\ Kinds = <<"Identifier", "Plus", "Identifier", "Plus", "Identifier">>
    /\ pc = "done"
    /\ Len(body) = 2
    /\ body[1].value.type = "BinOp"
    /\ body[1].value.left.type = "Name"
    /\ body[1].value.right.type = "Name"
    /\ body[2].value.type = "UnaryOp"

\* e is the operand of the stream at position i
Operand(e, i) == e.type = "Name" /\ e.node.start = toks[i].start

\* C21: a multiplicative operator binds tighter than an additive one:
\* "a + b * c" is the one expression a + (b * c), and "a * b + c" the one
\* expression (a * b) + c.
C21_arithmetic_precedence ==
    (Kinds \in ArithmeticStreams /\ last.op = "parse_statement" /\ last.before.cur = 1)
        => /\ last.k = "ok"
           /\ toks[last.after.cur].kind = "Eof"
           /\ Len(body) = 1
           /\ body[1].value.type = "BinOp"
           /\ IF Kinds[2] \in Additive
              THEN /\ Operand(body[1].value.left, 1)
                   /\ body[1].value.right.type = "BinOp"
                   /\ Operand(body[1].value.right.left, 3)
                   /\ Operand(body[1].value.right.right, 5)
              ELSE /\ body[1].value.left.type = "BinOp"
                   /\ Operand(body[1].value.left.left, 1)
                   /\ Operand(body[1].value.left.right, 3)
                   /\ Operand(body[1].value.right, 5)

\* "a + b * c": the statement a + b is returned with "*" as the current
\* token, where the next statement does not return
C21_witness ==
    /\ Kinds = <<"Identifier", "Plus", "Identifier", "Mul", "Identifier">>
    /\ last.op = "parse_statement"
    /\ Len(body) = 1
    /\ body[1].value.type = "BinOp"
    /\ body[1].value.op = "Add"
    /\ Operand(body[1].value.right, 3)
    /\ last.kind = "Mul"
    /\ pc = "aborted"

\* where the concatenation that starts at the first token ends, for a caller
\* that is depth displays deep: at the first line break outside of any
\* display, at the end of the source inside of one
ConcatenationEnd(depth) ==
    IF depth = 0 /\ \E i \in DOMAIN Kinds : Kinds[i] \in LineBreaks
    THEN Min({ i \in DOMAIN Kinds : Kinds[i] \in LineBreaks })
    ELSE Len(toks)

Ids(es) == [n \in DOMAIN es |-> es[n].id]

\* the values of the Identifier tokens at the odd (parity 1) or even
\* (parity 0) places among the Identifier tokens of the source
Identifiers(step, parity) ==
    [n \in 1..(Cardinality(Positions("Identifier")) \div step) |->
        toks[Nth("Identifier", step * n - (step - 1) * parity)].value]

\* C23: a list, tuple, set or dict display with a blank or a line break where
\* a comma or the closing bracket may appear parses to the elements of its
\* one-line form, and the whole display is consumed.
C23_multi_line_displays ==
    (Kinds \in DisplayStreams /\ last.op = "parse_atom")
        => /\ last.k = "ok"
           /\ last.after.cur = Len(toks)
           /\ body[1].type = CASE Kinds[1] = "LeftBrace" -> "List"
                               [] Kinds[1] = "LeftParen" -> "Tuple"
                               [] Positions("Colon") = {} -> "Set"
                               [] OTHER -> "Dict"
           /\ IF body[1].type = "Dict"
              THEN /\ Ids(body[1].keys) = Identifiers(2, 1)
                   /\ Ids(body[1].values) = Identifiers(2, 0)
              ELSE Ids(body[1].elements) = Identifiers(1, 0)

\* [a <line break> , b] is a parse error
C23_witness ==
    /\ Kinds = <<"LeftBrace", "Identifier", "NewLine", "Comma", "Identifier", "RightBrace">>
    /\ last.op = "parse_atom"
    /\ last.before.nel = 0
    /\ last.k = "err"
    /\ cur_kind(Cursor) = "NewLine"

\* the expression e has the shape of an assignment target
RECURSIVE IsTarget(_)
IsTarget(e) ==
    CASE e.type \in {"Name", "Attribute", "Subscript"} -> TRUE
      [] e.type = "Starred" -> IsTarget(e.value)
      [] e.type \in {"Tuple", "List"} ->
             \A n \in DOMAIN e.elements : IsTarget(e.elements[n])
      [] OTHER -> FALSE

\* C24: every target of every AssignStatement of the module has the shape of
\* a target, and a statement whose left-hand side has another shape is a
\* parse error, not an AssignStatement.
C24_assignment_targets ==
    (pc # "returned")
        => /\ \A n \in DOMAIN body :
                  body[n].type = "AssignStatement"
                      => \A t \in DOMAIN body[n].targets : IsTarget(body[n].targets[t])
           /\ ( /\ Kinds \in AssignStreams
                /\ last.op = "parse_statement"
                /\ last.before.cur = 1
                /\ SubSeq(Kinds, 1, Nth("Assign", 1) - 1) \in NotTargets )
                  => last.k = "err"

\* a + b = c is an AssignStatement whose target is a + b
C24_witness ==
    /\ Kinds = <<"Identifier", "Plus", "Identifier", "Assign", "Identifier">>
    /\ last.op = "parse_statement"
    /\ last.before.cur = 1
    /\ last.k = "ok"
    /\ body[1].type = "AssignStatement"
    /\ body[1].targets[1].type = "BinOp"
    /\ cur = 6

\* what parse_expression_list returns for the operand of the yield that is
\* the first token
YieldOperand ==
    self("parse_expression_list",
         [cur |-> 2, pte |-> toks[1].end, nel |-> last.before.nel, ns |-> last.before.ns],
         <<>>)

\* C25: when the parse of the operand of a yield returns an error, the yield
\* expression and the statement that holds it return that error, and no
\* statement is produced.
C25_failure_propagates ==
    ( /\ Kinds \in YieldStreams
      /\ last.op \in {"parse_yield_expression", "parse_statement"}
      /\ last.before.cur = 1
      /\ YieldOperand.k = "err" )
        => /\ last.k = "err"
           /\ last.e = YieldOperand.e
           /\ body = <<>>

\* yield {a}: the operand is an error, the statement is a Yield of nothing
C25_witness ==
    /\ Kinds = <<"Yield", "LeftBracket", "Identifier", "RightBracket">>
    /\ last.op = "parse_statement"
    /\ last.before.cur = 1
    /\ YieldOperand.k = "err"
    /\ last.k = "ok"
    /\ body[1].value.type = "Yield"
    /\ body[1].value.value = NoneOpt

\* C26: when advance returns, the current token is the next token that the
\* lexer delivered without an error, and prev_token_end is the end of the
\* token that was current at the call, whatever number of lexer errors was
\* skipped in between; no operation on the cursor makes prev_token_end
\* smaller.
C26_advance_tracks_position ==
    /\ last.after.pte >= last.before.pte
    /\ last.op = "advance"
           => /\ last.after.cur = NextToken(last.before.cur)
              /\ toks[last.after.cur].kind # LexError
              /\ last.after.pte = toks[last.before.cur].end
              /\ last.k = "ok"
              /\ last.after.nel = last.before.nel

\* an advance that skipped a lexer error
C26_witness ==
    /\ last.op = "advance"
    /\ last.after.cur > last.before.cur + 1
    /\ toks[last.before.cur + 1].kind = LexError
    /\ last.after.pte = toks[last.before.cur].end
    /\ last.after.pte < toks[last.after.cur - 1].start
    /\ cur = last.after.cur /\ pte = last.after.pte

\* C27: once parse_subscript has consumed the opening bracket of a subscript
\* the parser is inside the subscript body and nested_subscript is greater
\* than 0, and before the bracket, outside of every subscript, it is 0.
C27_subscript_depth ==
    last.op = "parse_subscript"
        => /\ last.before.ns = 0
           /\ last.after.cur > last.before.cur => last.after.ns > 0

\* a[ is consumed and nested_subscript is still 0
C27_witness ==
    /\ last.op = "parse_subscript"
    /\ toks[last.before.cur].kind = "LeftBrace"
    /\ cur = last.before.cur + 1
    /\ toks[1].kind = "Identifier"
    /\ ns = 0

\* C28: parse_atom returns, Ok or Err, with nested_expression_list at the
\* value it had at the call, and after every statement of the module driver,
\* parsed or failed, nested_expression_list is 0.
C28_list_depth_balanced ==
    /\ (last.op = "parse_atom" /\ last.k # "panic")
           => (last.after.nel = last.before.nel /\ nel = last.before.nel)
    /\ (last.op = "parse_statement" /\ last.k # "panic")
           => (last.before.nel = 0 /\ last.after.nel = 0 /\ nel = 0)

\* a statement that failed inside a list display, and parse_atom that failed
\* inside one at depth 1
C28_witness ==
    /\ toks[1].kind = "LeftBrace"
    /\ last.k = "err"
    /\ last.before.cur = 1
    /\ \/ last.op = "parse_statement" /\ nel = 0 /\ cur > 2
       \/ last.op = "parse_atom" /\ last.before.nel = 1 /\ nel = 1 /\ cur > 2

\* C29: when parse_paren_form_or_generator returns Ok, the token consumed
\* last is the ")" that closes the form, the cursor is right after it, and a
\* Tuple or Generator that was built ends where that ")" ends.
C29_paren_form_closed ==
    ( /\ Kinds \in ParenStreams
      /\ last.op = "parse_paren_form_or_generator"
      /\ last.k = "ok" )
        => /\ last.after.cur = Len(toks)
           /\ last.after.pte = toks[Len(Kinds)].end
           /\ body[1].type \in {"Tuple", "Generator"}
                  => body[1].node.end = toks[Len(Kinds)].end

\* (): the empty Tuple is returned with ")" still the current token
C29_witness ==
    /\ Kinds = <<"LeftParen", "RightParen">>
    /\ last.op = "parse_paren_form_or_generator"
    /\ last.k = "ok"
    /\ body[1].type = "Tuple"
    /\ body[1].elements = <<>>
    /\ cur = 2
    /\ toks[cur].kind = "RightParen"

\* C30: parse_target on a target returns, an Ok of it has consumed at least
\* one token, and for the starred target *a the "*" is consumed and the
\* Starred of the name a is returned.
C30_target_terminates ==
    (Kinds \in TargetStreams /\ last.op = "parse_target")
        => /\ last.k # "panic"
           /\ last.k = "ok" => last.after.cur > last.before.cur
           /\ Kinds = <<"Mul", "Identifier">>
                  => /\ last.k = "ok"
                     /\ body[1].type = "Starred"
                     /\ body[1].value.type = "Name"
                     /\ last.after.cur = 3

\* *a: the recursion of parse_target never consumes the "*" and does not end
C30_witness ==
    /\ Kinds = <<"Mul", "Identifier">>
    /\ last.op = "parse_target"
    /\ last.k = "panic"
    /\ cur = 1
    /\ pc = "returned"

=============================================================================
